---------------------------- MODULE Spec2Model ----------------------------
(***************************************************************************)
(* GhostCoder: prompt classification, @file reference resolution, the      *)
(* request / extract / merge / confirm / write cycle of send_prompt and    *)
(* its two fan-out loops, as a state machine.                               *)
(*                                                                         *)
(* A Python str is modelled as a sequence of one-character strings, so     *)
(* that substring search, strip(), lower(), str.replace and the two        *)
(* regular expressions are computed character by character.  Three fixed   *)
(* texts in which the program never searches (the system prompt and the    *)
(* two instruction suffixes) are one element each.                         *)
(***************************************************************************)
EXTENDS Naturals, Integers, Sequences, FiniteSets, TLC

VARIABLES
    fs,           \* the working directory: path -> [exists, content]
    pc,           \* "idle" | "request" | "confirm" | "done" | "exited"
    interactive,  \* main(): no prompt argument => interactive_loop
    auto_apply,   \* not (--print or --no-apply)
    auto_yes,     \* --skip-confirm
    force_code,   \* --code
    nprompts,     \* prompts handed to send_prompt so far
    prompt,       \* the prompt of the running send_prompt
    mode,         \* "none" | "single" | "multi" | "context"
    tasks,        \* fan-out: the file tasks, in order
    idx,          \* fan-out: the task being handled (1-based)
    pending,      \* the change proposal waiting for the answer on stdin
    fs0,          \* fs when the running send_prompt was entered
    log,          \* what the running send_prompt did so far, in order
    fin,          \* input of the function under test (function specifications)
    fout,         \* its result
    detected      \* the running send_prompt called detect_context_files

vars == << fs, pc, interactive, auto_apply, auto_yes, force_code, nprompts,
           prompt, mode, tasks, idx, pending, fs0, log, fin, fout, detected >>

-----------------------------------------------------------------------------
(* Characters and str methods                                              *)

LowerLetters ==
    { "a","b","c","d","e","f","g","h","i","j","k","l","m",
      "n","o","p","q","r","s","t","u","v","w","x","y","z" }

UpperLetters ==
    { "A","B","C","D","E","F","G","H","I","J","K","L","M",
      "N","O","P","Q","R","S","T","U","V","W","X","Y","Z" }

Digits == { "0","1","2","3","4","5","6","7","8","9" }

ToLower ==
    "A" :> "a" @@ "B" :> "b" @@ "C" :> "c" @@ "D" :> "d" @@ "E" :> "e" @@
    "F" :> "f" @@ "G" :> "g" @@ "H" :> "h" @@ "I" :> "i" @@ "J" :> "j" @@
    "K" :> "k" @@ "L" :> "l" @@ "M" :> "m" @@ "N" :> "n" @@ "O" :> "o" @@
    "P" :> "p" @@ "Q" :> "q" @@ "R" :> "r" @@ "S" :> "s" @@ "T" :> "t" @@
    "U" :> "u" @@ "V" :> "v" @@ "W" :> "w" @@ "X" :> "x" @@ "Y" :> "y" @@
    "Z" :> "z"

\* str.isspace() of one character
IsSpace(c) == c \in { " ", "\n", "\t", "\r" }

\* \w of the re module
IsWordChar(c) == c \in LowerLetters \cup UpperLetters \cup Digits \cup { "_" }

\* [A-Za-z0-9._/-] of FILE_REF_RE
IsNameChar(c) ==
    c \in LowerLetters \cup UpperLetters \cup Digits \cup { ".", "_", "/", "-" }

\* str.lower()
Lower(s) == [ i \in 1..Len(s) |-> IF s[i] \in UpperLetters THEN ToLower[s[i]] ELSE s[i] ]

\* s[i:].startswith(w), i 1-based
MatchAt(s, i, w) ==
    /\ i >= 1
    /\ i + Len(w) - 1 <= Len(s)
    /\ \A k \in 1..Len(w) : s[i + k - 1] = w[k]

\* w in s
Contains(s, w) == \E i \in 1..(Len(s) + 1) : MatchAt(s, i, w)

\* s.startswith(w)
StartsWith(s, w) == MatchAt(s, 1, w)

\* s.endswith(w)
EndsWith(s, w) == MatchAt(s, Len(s) - Len(w) + 1, w)

\* s.find(w, i): the first index >= i at which w occurs, 0 when there is none
Find(s, w, i) ==
    IF \E j \in i..(Len(s) + 1) : MatchAt(s, j, w)
    THEN CHOOSE j \in i..(Len(s) + 1) :
            /\ MatchAt(s, j, w)
            /\ \A h \in i..(j - 1) : ~MatchAt(s, h, w)
    ELSE 0

\* s.strip()
Strip(s) ==
    IF \A i \in 1..Len(s) : IsSpace(s[i])
    THEN << >>
    ELSE LET a == CHOOSE i \in 1..Len(s) :
                    ~IsSpace(s[i]) /\ \A j \in 1..(i - 1) : IsSpace(s[j])
             b == CHOOSE i \in 1..Len(s) :
                    ~IsSpace(s[i]) /\ \A j \in (i + 1)..Len(s) : IsSpace(s[j])
         IN  SubSeq(s, a, b)

\* s.replace(old, new, 1)
ReplaceFirst(s, old, new) ==
    LET i == Find(s, old, 1)
    IN  IF i = 0 THEN s
        ELSE SubSeq(s, 1, i - 1) \o new \o SubSeq(s, i + Len(old), Len(s))

\* the elements of a finite set of numbers, ascending
RECURSIVE Ascending(_)
Ascending(S) ==
    IF S = {} THEN << >>
    ELSE LET m == CHOOSE x \in S : \A y \in S : x <= y
         IN  << m >> \o Ascending(S \ { m })

\* s.splitlines() for "\n" line ends
SplitLines(s) ==
    LET nl    == { i \in 1..Len(s) : s[i] = "\n" }
        ends  == Ascending(nl \cup (IF Len(s) > 0 /\ s[Len(s)] # "\n"
                                    THEN { Len(s) + 1 } ELSE {}))
    IN  [ k \in 1..Len(ends) |->
            SubSeq(s, (IF k = 1 THEN 1 ELSE ends[k - 1] + 1), ends[k] - 1) ]

\* "\n".join(lines)
RECURSIVE JoinLines(_)
JoinLines(lines) ==
    IF Len(lines) = 0 THEN << >>
    ELSE IF Len(lines) = 1 THEN lines[1]
    ELSE lines[1] \o << "\n" >> \o JoinLines(Tail(lines))

-----------------------------------------------------------------------------
(* config.py                                                               *)

MODIFICATION_WORDS ==
  { <<"r","e","w","r","i","t","e">>,
    <<"f","i","x">>,
    <<"a","d","d">>,
    <<"r","e","m","o","v","e">>,
    <<"d","e","l","e","t","e">>,
    <<"u","p","d","a","t","e">>,
    <<"c","h","a","n","g","e">>,
    <<"m","o","d","i","f","y">>,
    <<"r","e","f","a","c","t","o","r">>,
    <<"i","m","p","r","o","v","e">>,
    <<"o","p","t","i","m","i","z","e">>,
    <<"c","o","n","v","e","r","t">>,
    <<"r","e","p","l","a","c","e">>,
    <<"i","m","p","l","e","m","e","n","t">>,
    <<"c","r","e","a","t","e">>,
    <<"w","r","i","t","e">>,
    <<"g","e","n","e","r","a","t","e">>,
    <<"m","a","k","e">>,
    <<"b","u","i","l","d">> }

EXPLANATION_WORDS ==
  { <<"e","x","p","l","a","i","n">>,
    <<"d","e","s","c","r","i","b","e">>,
    <<"w","h","a","t">>,
    <<"h","o","w">>,
    <<"w","h","y">>,
    <<"a","n","a","l","y","z","e">>,
    <<"r","e","v","i","e","w">>,
    <<"u","n","d","e","r","s","t","a","n","d">>,
    <<"s","h","o","w"," ","m","e">>,
    <<"t","e","l","l"," ","m","e">>,
    <<"l","o","o","k"," ","a","t">> }

SYSTEM_PROMPT == << "<SYSTEM_PROMPT>" >>

\* The backquote character, which a TLA+ string cannot hold, is written "^".
Tick == "^"

Fence == << Tick, Tick, Tick >>

\* FILE_REF_RE: the start positions of the matches of @([A-Za-z0-9._/-]+)
RefStarts(s) ==
    { i \in 1..(Len(s) - 1) : s[i] = "@" /\ IsNameChar(s[i + 1]) }

\* group(1) of the match starting at i: the longest run of name characters
RefName(s, i) ==
    LET last == CHOOSE e \in (i + 1)..Len(s) :
                   /\ \A k \in (i + 1)..e : IsNameChar(s[k])
                   /\ e = Len(s) \/ ~IsNameChar(s[e + 1])
    IN  SubSeq(s, i + 1, last)

\* FILE_REF_RE.findall(s)
FindRefs(s) ==
    LET at == Ascending(RefStarts(s))
    IN  [ k \in 1..Len(at) |-> RefName(s, at[k]) ]

\* FILE_REF_RE.sub("", s)
RECURSIVE KeepChars(_, _, _)
KeepChars(s, i, drop) ==
    IF i > Len(s) THEN << >>
    ELSE (IF i \in drop THEN << >> ELSE << s[i] >>) \o KeepChars(s, i + 1, drop)

SubRefs(s) ==
    LET drop == UNION { i..(i + Len(RefName(s, i))) : i \in RefStarts(s) }
    IN  KeepChars(s, 1, drop)

-----------------------------------------------------------------------------
(* utils.py                                                                *)

\* is_modification_request without the test of the explanation words
is_modification_request_words_only(p) ==
    \E w \in MODIFICATION_WORDS : Contains(Lower(p), w)

is_modification_request(p) ==
    LET lower == Lower(p)
    IN  IF \E w \in EXPLANATION_WORDS : Contains(lower, w)
        THEN FALSE
        ELSE \E w \in MODIFICATION_WORDS : Contains(lower, w)

-----------------------------------------------------------------------------
(* The file system: pathlib.Path over the working directory                *)

\* Path(p).exists()
Exists(f, p) == p \in DOMAIN f /\ f[p].exists

\* Path(p).read_text()
ReadText(f, p) == f[p].content

\* Path(p).write_text(c): the file system afterwards
WriteText(f, p, c) ==
    [ q \in DOMAIN f \cup { p } |->
        IF q = p THEN [ exists |-> TRUE, content |-> c ] ELSE f[q] ]

\* Path(p).name: what follows the last "/"
PathName(p) ==
    LET sl == { i \in 1..Len(p) : p[i] = "/" }
    IN  IF sl = {} THEN p
        ELSE SubSeq(p, (CHOOSE i \in sl : \A j \in sl : j <= i) + 1, Len(p))

-----------------------------------------------------------------------------
(* file_processor.py                                                       *)

CRITICAL_SUFFIX == << "<CRITICAL: respond with the complete updated file>" >>

IMPORTANT_SUFFIX == << "<IMPORTANT: provide the complete implementation>" >>

\* the replacement text of one @filename token
Replacement(f, filename) ==
    IF Exists(f, filename)
    THEN <<"\n","F","i","l","e",":"," ">> \o filename \o <<"\n","^","^","^","\n">>
            \o ReadText(f, filename) \o <<"\n","^","^","^">>
    ELSE <<"[","F","i","l","e"," ","'">> \o filename
            \o <<"'"," ","n","o","t"," ","f","o","u","n","d","]">>

\* one pass of the loop over FILE_REF_RE.finditer(prompt): str.replace with
\* count 1 on the text as the passes before left it
ReplaceToken(f, processed, filename) ==
    ReplaceFirst(processed, << "@" >> \o filename, Replacement(f, filename))

\* ReplaceRefs that substitutes once per distinct name: a repeated match is
\* passed over
RECURSIVE ReplaceRefsOnce(_, _, _, _)
ReplaceRefsOnce(f, processed, names, k) ==
    IF k > Len(names) THEN processed
    ELSE ReplaceRefsOnce(f,
                         (IF \E j \in 1..(k - 1) : names[j] = names[k]
                          THEN processed
                          ELSE ReplaceToken(f, processed, names[k])),
                         names, k + 1)

RECURSIVE ReplaceRefs(_, _, _, _)
ReplaceRefs(f, processed, names, k) ==
    IF k > Len(names) THEN processed
    ELSE ReplaceRefs(f, ReplaceToken(f, processed, names[k]), names, k + 1)

\* Suffix that takes no notice of the classification
SuffixWhateverTheRequest(has_refs, is_mod) ==
    IF has_refs THEN CRITICAL_SUFFIX ELSE IMPORTANT_SUFFIX

\* the suffix appended after the substitution
Suffix(has_refs, is_mod) ==
    IF has_refs /\ is_mod THEN CRITICAL_SUFFIX
    ELSE IF is_mod /\ ~has_refs THEN IMPORTANT_SUFFIX
    ELSE << >>

process_file_references(f, p, force) ==
    LET is_mod   == is_modification_request(p) \/ force
        names    == FindRefs(p)
        has_refs == Len(names) > 0
    IN  [ processed |-> ReplaceRefs(f, p, names, 1) \o Suffix(has_refs, is_mod),
          has_refs  |-> has_refs,
          is_mod    |-> is_mod ]

\* CODE_BLOCK_RE = ^^^(?:\w+)?\s*\n(.*?)^^^ with DOTALL: the match that starts at
\* i, if there is one.  The language tag is the longest run of word characters;
\* the greedy \s* gives characters back until \n matches, so the body starts
\* after the last newline of the whitespace run; the lazy body ends at the next
\* fence.
BlockAt(s, i) ==
    LET tagEnd == CHOOSE e \in (i + 2)..Len(s) :
                     /\ \A k \in (i + 3)..e : IsWordChar(s[k])
                     /\ e = Len(s) \/ ~IsWordChar(s[e + 1])
        wsEnd  == CHOOSE e \in tagEnd..Len(s) :
                     /\ \A k \in (tagEnd + 1)..e : IsSpace(s[k])
                     /\ e = Len(s) \/ ~IsSpace(s[e + 1])
        nls    == { k \in (tagEnd + 1)..wsEnd : s[k] = "\n" }
        nl     == CHOOSE k \in nls : \A h \in nls : h <= k
        close  == IF nls = {} THEN 0 ELSE Find(s, Fence, nl + 1)
    IN  IF MatchAt(s, i, Fence) /\ nls # {} /\ close # 0
        THEN [ ok |-> TRUE, from |-> nl + 1, close |-> close ]
        ELSE [ ok |-> FALSE, from |-> 0, close |-> 0 ]

\* the least element of a non-empty set of numbers
Least(S) == CHOOSE x \in S : \A y \in S : x <= y

\* CODE_BLOCK_RE.findall(s), scanning on from position p: the leftmost match b,
\* then the matches after its closing fence
RECURSIVE FindBlocksFrom(_, _)
BlockThenRest(s, b) ==
    << SubSeq(s, b.from, b.close - 1) >> \o FindBlocksFrom(s, b.close + 3)

FirstBlockOf(s, starts) ==
    IF starts = {} THEN << >> ELSE BlockThenRest(s, BlockAt(s, Least(starts)))

FindBlocksFrom(s, p) ==
    FirstBlockOf(s, { i \in p..Len(s) : MatchAt(s, i, Fence) /\ BlockAt(s, i).ok })

FindBlocks(s) == FindBlocksFrom(s, 1)

\* CODE_BLOCK_RE.search(s)
HasBlock(s) == Len(FindBlocks(s)) > 0

\* lines 99-107: the fence lines at or after line i
FenceLines(lines, i) == { j \in i..Len(lines) : StartsWith(lines[j], Fence) }

\* the first fence line at or after line i has a fence line after it
Closed(lines, i) ==
    /\ FenceLines(lines, i) # {}
    /\ FenceLines(lines, Least(FenceLines(lines, i)) + 1) # {}

\* the lines between fence line j and the next fence line, joined and stripped
FencedAfter(lines, j) ==
    Strip(JoinLines(SubSeq(lines, j + 1, Least(FenceLines(lines, j + 1)) - 1)))

\* AnchoredOrFirst that never looks for the file's name
FirstBlockAlways(blocks, lines, hits) == Strip(blocks[1])

\* lines 96-109: the block after the first line that names the file and has a
\* closed block at or after it; without such a line, the first block
AnchoredOrFirst(blocks, lines, hits) ==
    IF hits = {} THEN Strip(blocks[1])
    ELSE FencedAfter(lines, Least(FenceLines(lines, Least(hits))))

ExtractFrom(blocks, lines, hint) ==
    IF Len(blocks) = 0 THEN << >>
    ELSE IF Len(hint) = 0 THEN Strip(blocks[1])
    ELSE AnchoredOrFirst(blocks, lines,
            { i \in 1..Len(lines) : Contains(lines[i], hint[1]) /\ Closed(lines, i) })

\* hint: << >> for filename=None, << filename >> otherwise
extract_code_for_file(response, hint) ==
    ExtractFrom(FindBlocks(response), SplitLines(response), hint)

\* one iteration of the loop of process_multiple_file_references
FileTask(f, p, force, filename) ==
    LET clean_prompt == Strip(SubRefs(p))
        file_prompt  == clean_prompt
                          \o <<" ","i","n"," ","t","h","e"," ","f","i","l","e"," ","@">>
                          \o filename
    IN  [ file_path        |-> filename,
          original_prompt  |-> p,
          processed_prompt |-> process_file_references(f, file_prompt, force).processed ]

\* FileTasks without the "not found, skipping" of a missing file
RECURSIVE FileTasksUnskipped(_, _, _, _, _)
FileTasksUnskipped(f, p, force, names, k) ==
    IF k > Len(names) THEN << >>
    ELSE << FileTask(f, p, force, names[k]) >>
            \o FileTasksUnskipped(f, p, force, names, k + 1)

RECURSIVE FileTasks(_, _, _, _, _)
FileTasks(f, p, force, names, k) ==
    IF k > Len(names) THEN << >>
    ELSE (IF Exists(f, names[k]) THEN << FileTask(f, p, force, names[k]) >> ELSE << >>)
            \o FileTasks(f, p, force, names, k + 1)

process_multiple_file_references(f, p, force) ==
    FileTasks(f, p, force, FindRefs(p), 1)

\* has_multiple_file_references that is content with one reference
has_file_references(p) == Len(FindRefs(p)) > 0

has_multiple_file_references(p) == Len(FindRefs(p)) > 1

-----------------------------------------------------------------------------
(* context_detector.py                                                     *)

DOMAIN_KEYWORDS ==
    [
      api |-> << <<"a","p","i">>,
                 <<"e","n","d","p","o","i","n","t">>,
                 <<"r","o","u","t","e">>,
                 <<"c","o","n","t","r","o","l","l","e","r">>,
                 <<"v","i","e","w">> >>,
      web |-> << <<"w","e","b">>,
                 <<"f","r","o","n","t","e","n","d">>,
                 <<"h","t","m","l">>,
                 <<"c","s","s">>,
                 <<"j","a","v","a","s","c","r","i","p","t">>,
                 <<"j","s">>,
                 <<"r","e","a","c","t">>,
                 <<"v","u","e">> >>,
      database |-> << <<"d","a","t","a","b","a","s","e">>,
                      <<"d","b">>,
                      <<"m","o","d","e","l">>,
                      <<"s","c","h","e","m","a">>,
                      <<"m","i","g","r","a","t","i","o","n">>,
                      <<"q","u","e","r","y">> >>,
      auth |-> << <<"a","u","t","h">>,
                  <<"a","u","t","h","e","n","t","i","c","a","t","i","o","n">>,
                  <<"l","o","g","i","n">>,
                  <<"l","o","g","o","u","t">>,
                  <<"p","a","s","s","w","o","r","d">>,
                  <<"s","e","c","u","r","i","t","y">>,
                  <<"j","w","t">>,
                  <<"t","o","k","e","n">> >>,
      user |-> << <<"u","s","e","r">>,
                  <<"a","c","c","o","u","n","t">>,
                  <<"p","r","o","f","i","l","e">>,
                  <<"r","e","g","i","s","t","r","a","t","i","o","n">> >>,
      middleware |-> << <<"m","i","d","d","l","e","w","a","r","e">>,
                        <<"i","n","t","e","r","c","e","p","t","o","r">>,
                        <<"f","i","l","t","e","r">> >>,
      config |-> << <<"c","o","n","f","i","g">>,
                    <<"c","o","n","f","i","g","u","r","a","t","i","o","n">>,
                    <<"s","e","t","t","i","n","g","s">>,
                    <<"e","n","v">>,
                    <<"e","n","v","i","r","o","n","m","e","n","t">> >>,
      utils |-> << <<"u","t","i","l","s">>,
                   <<"u","t","i","l","i","t","i","e","s">>,
                   <<"h","e","l","p","e","r","s">>,
                   <<"c","o","m","m","o","n">>,
                   <<"s","h","a","r","e","d">> >>,
      main |-> << <<"m","a","i","n">>,
                  <<"a","p","p">>,
                  <<"a","p","p","l","i","c","a","t","i","o","n">>,
                  <<"e","n","t","r","y">>,
                  <<"s","t","a","r","t","u","p">> >>,
      service |-> << <<"s","e","r","v","i","c","e">>,
                     <<"b","u","s","i","n","e","s","s">>,
                     <<"l","o","g","i","c">>,
                     <<"c","o","r","e">> >>,
      file |-> << <<"f","i","l","e">>,
                  <<"u","p","l","o","a","d">>,
                  <<"d","o","w","n","l","o","a","d">>,
                  <<"s","t","o","r","a","g","e">>,
                  <<"i","o">> >>,
      logging |-> << <<"l","o","g">>,
                     <<"l","o","g","g","i","n","g">>,
                     <<"d","e","b","u","g">>,
                     <<"t","r","a","c","e">> >>,
      error |-> << <<"e","r","r","o","r">>,
                   <<"e","x","c","e","p","t","i","o","n">>,
                   <<"h","a","n","d","l","i","n","g">>,
                   <<"t","r","y">>,
                   <<"c","a","t","c","h">> >>,
      test |-> << <<"t","e","s","t">>,
                  <<"s","p","e","c">>,
                  <<"u","n","i","t">>,
                  <<"i","n","t","e","g","r","a","t","i","o","n">>,
                  <<"f","i","x","t","u","r","e">> >>,
      doc |-> << <<"d","o","c">>,
                 <<"d","o","c","u","m","e","n","t","a","t","i","o","n">>,
                 <<"r","e","a","d","m","e">>,
                 <<"c","o","m","m","e","n","t">> >> ]

DomainNames == DOMAIN DOMAIN_KEYWORDS

RECURSIVE SumOver(_, _)
SumOver(g, S) ==
    IF S = {} THEN 0
    ELSE LET x == CHOOSE y \in S : TRUE
         IN  g[x] + SumOver(g, S \ { x })

\* the number of keywords of domain d found in the lower-cased prompt
KeywordHits(d, prompt_lower) ==
    Cardinality({ k \in 1..Len(DOMAIN_KEYWORDS[d]) :
                    Contains(prompt_lower, DOMAIN_KEYWORDS[d][k]) })

\* the hits of the domains of D, as a table
RECURSIVE HitTable(_, _)
HitTable(D, prompt_lower) ==
    IF D = {} THEN << >>
    ELSE LET d == CHOOSE x \in D : TRUE
         IN  (d :> KeywordHits(d, prompt_lower)) @@ HitTable(D \ { d }, prompt_lower)

\* analyze_prompt_intent: for every domain the number of its keywords found in
\* the lower-cased prompt.  The score of the dict is count / len(keywords); a
\* domain is a key of the dict iff its count is above zero.
analyze_prompt_intent(p) == HitTable(DomainNames, Lower(p))

IntentDomains(intent) == { d \in DomainNames : intent[d] > 0 }

\* Scores are kept exact, as multiples of 1/ScoreScale: every keyword list has
\* 3, 4, 5, 6 or 8 entries and the weights are 0.5, 0.3 and 0.2.
ScoreScale == 14400 * 10

\* Path(p).stem: the name without its last suffix
PathStem(p) ==
    LET name == PathName(p)
        dots == { i \in 2..Len(name) : name[i] = "." }
    IN  IF dots = {} THEN name
        ELSE SubSeq(name, 1, (CHOOSE i \in dots : \A j \in dots : j <= i) - 1)

\* calculate_file_relevance, times ScoreScale
calculate_file_relevance(f, p, intent) ==
    IF ~Exists(f, p) THEN 0
    ELSE
    LET content  == Lower(ReadText(f, p))
        filename == Lower(PathName(p))
        stem     == Lower(PathStem(p))
        n(d)     == Len(DOMAIN_KEYWORDS[d])
        byName   == [ d \in IntentDomains(intent) |->
                        IF \E k \in 1..n(d) :
                              \/ Contains(filename, DOMAIN_KEYWORDS[d][k])
                              \/ Contains(stem, DOMAIN_KEYWORDS[d][k])
                        THEN (ScoreScale * intent[d]) \div (2 * n(d))
                        ELSE 0 ]
        matches(d) == Cardinality({ k \in 1..n(d) : Contains(content, DOMAIN_KEYWORDS[d][k]) })
        byText   == [ d \in IntentDomains(intent) |->
                        (ScoreScale * 3 * intent[d] * matches(d)) \div (10 * n(d) * n(d)) ]
        bonus    == IF \E w \in { <<"m","a","i","n">>, <<"a","p","p">>, <<"c","o","r","e">> } :
                          Contains(filename, w)
                    THEN ScoreScale \div 5 ELSE 0
        total    == SumOver(byName, IntentDomains(intent))
                      + SumOver(byText, IntentDomains(intent)) + bonus
    IN  IF total < ScoreScale THEN total ELSE ScoreScale

\* Path.parts of a path below the working directory, after the parts of the
\* working directory itself
ProjectParts == << <<"/">>, <<"w","o","r","k">> >>

RECURSIVE SplitPath(_)
SplitPath(p) ==
    LET i == Find(p, << "/" >>, 1)
    IN  IF i = 0 THEN << p >>
        ELSE << SubSeq(p, 1, i - 1) >> \o SplitPath(SubSeq(p, i + 1, Len(p)))

PathParts(p) == ProjectParts \o SplitPath(p)

SkippedDirs ==
    { <<"v","e","n","v">>, <<"e","n","v">>, <<"g","h","o","s","t">>,
      <<"_","_","p","y","c","a","c","h","e","_","_">>,
      <<"n","o","d","e","_","m","o","d","u","l","e","s">>,
      <<"s","i","t","e","-","p","a","c","k","a","g","e","s">> }

\* project_path.rglob("*.py") after the three skips of lines 95-101
PythonFiles(f) ==
    { p \in DOMAIN f :
        /\ f[p].exists
        /\ EndsWith(PathName(p), <<".","p","y">>)
        /\ \A k \in 1..Len(PathParts(p)) :
              /\ ~StartsWith(PathParts(p)[k], << "." >>)
              /\ PathParts(p)[k] \notin SkippedDirs }

MAX_FILES == 10

\* relevant_files.sort(key=score, reverse=True): rglob yields the files in an
\* order the file system decides and list.sort is stable, so the files of S
\* come out in any order in which the scores do not increase
RECURSIVE Ranked(_, _)
Ranked(S, score) ==
    IF S = {} THEN { << >> }
    ELSE LET top == { p \in S : \A q \in S : score[p] >= score[q] }
         IN  UNION { { << p >> \o r : r \in Ranked(S \ { p }, score) } : p \in top }

\* the first n entries of list, or all of it
Truncated(list, n) == SubSeq(list, 1, IF Len(list) < n THEN Len(list) ELSE n)

\* the files of f whose score is above the threshold 0.1
Relevant(f, score) == { p \in PythonFiles(f) : 10 * score[p] > ScoreScale }

\* the scores of the files of S, as a table
RECURSIVE ScoreTable(_, _, _)
ScoreTable(f, S, intent) ==
    IF S = {} THEN << >>
    ELSE LET p == CHOOSE x \in S : TRUE
         IN  (p :> calculate_file_relevance(f, p, intent)) @@ ScoreTable(f, S \ { p }, intent)

\* TopRanked without the cut at max_files
TopRankedUncut(f, score) == Ranked(Relevant(f, score), score)

\* the files above the threshold, ranked, and the first max_files of them
TopRanked(f, score) == { Truncated(o, MAX_FILES) : o \in Ranked(Relevant(f, score), score) }

\* find_relevant_files: the lists it can return
find_relevant_files(f, intent) ==
    IF IntentDomains(intent) = {} THEN { << >> }
    ELSE TopRanked(f, ScoreTable(f, PythonFiles(f), intent))

\* detect_context_files: the lists it can return
detect_context_files(f, p) ==
    LET intent_scores == analyze_prompt_intent(p)
    IN  IF IntentDomains(intent_scores) = {} THEN { << >> }
        ELSE find_relevant_files(f, intent_scores)

-----------------------------------------------------------------------------
(* ai_client.py: the pure parts                                            *)

SHORT_CODE_LIMIT == 500

\* intelligently_merge_changes that puts a new function before the existing
\* content
merge_code_first(f, file_path, new_code) ==
    IF ~Exists(f, file_path) THEN new_code
    ELSE IF Len(Strip(new_code)) < 500 /\ Contains(new_code, <<"d","e","f"," ">>)
    THEN new_code \o <<"\n","\n">> \o ReadText(f, file_path)
    ELSE IF 10 * Len(new_code) > 8 * Len(ReadText(f, file_path))
    THEN ReadText(f, file_path)
    ELSE ReadText(f, file_path)
            \o <<"\n","\n","#"," ","A","d","d","e","d"," ","b","y"," ",
                 "G","h","o","s","t","C","o","d","e","r",":","\n">>
            \o new_code

\* intelligently_merge_changes that lets code longer than 80% of the file
\* replace it
merge_replacing_large(f, file_path, new_code) ==
    IF ~Exists(f, file_path) THEN new_code
    ELSE IF Len(Strip(new_code)) < 500 /\ Contains(new_code, <<"d","e","f"," ">>)
    THEN ReadText(f, file_path) \o <<"\n","\n">> \o new_code
    ELSE IF 10 * Len(new_code) > 8 * Len(ReadText(f, file_path))
    THEN new_code
    ELSE ReadText(f, file_path)
            \o <<"\n","\n","#"," ","A","d","d","e","d"," ","b","y"," ",
                 "G","h","o","s","t","C","o","d","e","r",":","\n">>
            \o new_code

\* intelligently_merge_changes that hands the new code back as it came
merge_verbatim(f, file_path, new_code) == new_code

\* intelligently_merge_changes that leaves alone a file which already holds the
\* new code
merge_deduplicating(f, file_path, new_code) ==
    IF ~Exists(f, file_path) THEN new_code
    ELSE IF Contains(ReadText(f, file_path), new_code) THEN ReadText(f, file_path)
    ELSE IF Len(Strip(new_code)) < 500 /\ Contains(new_code, <<"d","e","f"," ">>)
    THEN ReadText(f, file_path) \o <<"\n","\n">> \o new_code
    ELSE IF 10 * Len(new_code) > 8 * Len(ReadText(f, file_path))
    THEN ReadText(f, file_path)
    ELSE ReadText(f, file_path)
            \o <<"\n","\n","#"," ","A","d","d","e","d"," ","b","y"," ",
                 "G","h","o","s","t","C","o","d","e","r",":","\n">>
            \o new_code

\* intelligently_merge_changes; len(new_code) > len(existing_content) * 0.8 is
\* compared in tenths
intelligently_merge_changes(f, file_path, new_code) ==
    IF ~Exists(f, file_path) THEN new_code
    ELSE
    LET existing_content == ReadText(f, file_path)
    IN  IF Len(Strip(new_code)) < SHORT_CODE_LIMIT /\ Contains(new_code, <<"d","e","f"," ">>)
        THEN IF EndsWith(Strip(existing_content), << "\n" >>)
             THEN existing_content \o new_code
             ELSE existing_content \o <<"\n","\n">> \o new_code
        ELSE IF 10 * Len(new_code) > 8 * Len(existing_content)
        THEN existing_content
        ELSE existing_content
                \o <<"\n","\n","#"," ","A","d","d","e","d"," ","b","y"," ",
                     "G","h","o","s","t","C","o","d","e","r",":","\n">>
                \o new_code

\* What input() gave: nothing was read (auto_yes), end of input, or a line
NoAnswer == [ read |-> FALSE, eof |-> FALSE, line |-> << >> ]

\* show_diff_and_confirm without the strip() of the answer
show_diff_and_confirm_unstripped(auto, answer) ==
    IF auto THEN TRUE
    ELSE IF answer.eof THEN FALSE
    ELSE StartsWith(Lower(answer.line), << "y" >>)

\* show_diff_and_confirm: its return value (the diff is only printed)
show_diff_and_confirm(auto, answer) ==
    IF auto THEN TRUE
    ELSE IF answer.eof THEN FALSE
    ELSE StartsWith(Lower(Strip(answer.line)), << "y" >>)

\* ShouldApply with the classification ignored
ShouldApplyAlways(p, force) == TRUE

\* the guard of apply_code_changes and of apply_single_file_changes
ShouldApply(p, force) == is_modification_request(p) \/ force

\* AppliesChanges with the flag ignored
AppliesChangesAlways(apply) == TRUE

\* "if auto_apply:" after a response was printed
AppliesChanges(apply) == apply

\* One entry of log
Event(op, task, file, text, ok, answer) ==
    [ op |-> op, task |-> task, file |-> file, text |-> text, ok |-> ok,
      answer |-> answer ]

\* WriteIf with the test of the approval lost: the file is written either way
WriteAlways(approved, f, task, file_path, content, answer) ==
    [ fs     |-> WriteText(f, file_path, content),
      events |-> << Event("confirm", task, file_path, content, approved, answer),
                    Event("write", task, file_path, content, TRUE, NoAnswer) >> ]

\* "if <approved>: path.write_text(content)": the file system afterwards and
\* what happened
WriteIf(approved, f, task, file_path, content, answer) ==
    [ fs     |-> IF approved THEN WriteText(f, file_path, content) ELSE f,
      events |-> << Event("confirm", task, file_path, content, approved, answer) >>
                   \o (IF approved
                       THEN << Event("write", task, file_path, content, TRUE, NoAnswer) >>
                       ELSE << >>) ]

ConfirmAndWrite(f, task, file_path, content, auto, answer) ==
    WriteIf(show_diff_and_confirm(auto, answer), f, task, file_path, content, answer)

NoProposal(events) ==
    [ proposes |-> FALSE, file_path |-> << >>, content |-> << >>, events |-> events ]

\* CodeProposal with the merge of apply_single_file_changes put in
CodeProposalMerged(f, file_path, code) == intelligently_merge_changes(f, file_path, code)

\* the content apply_code_changes offers for a referenced file: the code itself
CodeProposal(f, file_path, code) == code

\* Propose with the test "if code:" lost: empty code is proposed as well
ProposeEvenEmpty(task, file_path, code, content) ==
    [ proposes |-> TRUE, file_path |-> file_path, content |-> content,
      events |-> << Event("extract", task, file_path, code, code # << >>, NoAnswer) >> ]

\* "if code:" of both appliers: the proposal made of the extracted code
Propose(task, file_path, code, content) ==
    IF code # << >>
    THEN [ proposes |-> TRUE, file_path |-> file_path, content |-> content,
           events |-> << Event("extract", task, file_path, code, TRUE, NoAnswer) >> ]
    ELSE NoProposal(<< Event("extract", task, file_path, code, FALSE, NoAnswer) >>)

ProposeCode(f, fname, code) == Propose(0, fname, code, CodeProposal(f, fname, code))

\* ProposeFor that offers the generic block of the response for a.py when the
\* prompt references no file
ProposeForDefault(f, response, referenced_files) ==
    IF Len(referenced_files) = 0
    THEN ProposeCode(f, <<"a",".","p","y">>, extract_code_for_file(response, << >>))
    ELSE ProposeCode(f, referenced_files[1],
                     extract_code_for_file(response, << referenced_files[1] >>))

\* the loop of apply_code_changes over referenced_files.  send_prompt reaches
\* it only with at most one @name in the prompt (line 39), so the loop has at
\* most one pass.
ProposeFor(f, response, referenced_files) ==
    IF Len(referenced_files) = 0 THEN NoProposal(<< >>)
    ELSE ProposeCode(f, referenced_files[1],
                     extract_code_for_file(response, << referenced_files[1] >>))

\* apply_code_changes up to its call of show_diff_and_confirm
apply_code_changes(f, response, p, force) ==
    IF ~ShouldApply(p, force) THEN NoProposal(<< >>)
    ELSE ProposeFor(f, response, FindRefs(p))

ProposeMerged(f, task, file_path, code) ==
    Propose(task, file_path, code, intelligently_merge_changes(f, file_path, code))

\* apply_single_file_changes up to its call of show_diff_and_confirm
apply_single_file_changes(f, task, response, file_path, p, force) ==
    IF ~ShouldApply(p, force) THEN NoProposal(<< >>)
    ELSE ProposeMerged(f, task, file_path,
                       extract_code_for_file(response, << PathName(file_path) >>))

\* full_prompt
FullPrompt(processed_prompt) ==
    SYSTEM_PROMPT
       \o <<"\n","\n","U","s","e","r"," ","r","e","q","u","e","s","t",":"," ">>
       \o processed_prompt

\* OnFailure with the loops' "continue" replaced by the exit of send_prompt
OnFailureExit(m) == "exit"

\* OnFailure with the exit of send_prompt replaced by the loops' "continue"
OnFailureContinue(m) == "continue"

\* What a failed request does: sys.exit in send_prompt, continue in the loops
OnFailure(m) == IF m = "single" THEN "exit" ELSE "continue"

-----------------------------------------------------------------------------
(* The inputs the model draws from                                         *)

MaxPrompts == 1      \* prompts one run of the program handles

A_PY    == <<"a",".","p","y">>
APP_PY  == <<"a","p","p",".","p","y">>
LIB_APP == <<"l","i","b","/","a","p","p",".","p","y">>
M_PY    == <<"m",".","p","y">>

File(c) == [ exists |-> TRUE, content |-> c ]

Missing == [ exists |-> FALSE, content |-> << >> ]

\* the working directory when the program starts: m.py does not exist
InitialFs ==
    (A_PY :> File(<<"x","=","1","\n">>)) @@ (APP_PY :> File(<<"r","u","n","\n">>))
       @@ (LIB_APP :> File(<<"m","a","i","n","\n">>)) @@ (M_PY :> Missing)

\* a working directory whose only Python file is a.py
BareFs ==
    (A_PY :> File(<<"x","=","1","\n">>)) @@ (APP_PY :> Missing)
       @@ (LIB_APP :> Missing) @@ (M_PY :> Missing)

InitialDirs == { InitialFs, BareFs }

Prompts ==
    { <<"f","i","x"," ","@","a",".","p","y">>,
      <<"e","x","p","l","a","i","n"," ","@","a",".","p","y">>,
      <<"w","h","y"," ","f","i","x"," ","@","a",".","p","y">>,
      <<"s","e","e"," ","@","a",".","p","y">>,
      <<"f","i","x"," ","@","m",".","p","y">>,
      <<"F","i","x"," ","@","a",".","p","y"," ","a","n","d"," ","@","a","p","p",".","p","y">>,
      <<"e","x","p","l","a","i","n"," ","@","a",".","p","y"," ","@","a","p","p",".","p","y">>,
      <<"f","i","x"," ","@","a",".","p","y"," ","@","a",".","p","y">>,
      <<"f","i","x"," ","@","m",".","p","y"," ","@","a",".","p","y">>,
      <<"f","i","x"," ","@","m",".","p","y"," ","@","m",".","p","y">>,
      <<"f","i","x"," ","a","p","p">>,
      <<"e","x","p","l","a","i","n"," ","a","p","p">>,
      <<"f","i","x"," ","x">>,
      <<"h","i">> }

\* n times the character c
Rep(c, n) == [ i \in 1..n |-> c ]

\* a short function, a short statement in a tagged block, prose without a
\* block, and a function of more than SHORT_CODE_LIMIT characters
Responses ==
    { <<"^","^","^","\n","d","e","f"," ","f","\n","^","^","^">>,
      <<"o","k","\n","^","^","^","p","y","t","h","o","n","\n","y","\n","^","^","^","\n">>,
      <<"o","k">>,
      <<"^","^","^","\n","d","e","f"," ">> \o Rep("0", SHORT_CODE_LIMIT) \o <<"\n","^","^","^">> }

\* requests.post raised or the status was not 2xx; r.json() raised ValueError;
\* the "response" field was empty or missing
Failures == { "error", "badjson", "empty" }

Outcomes ==
    [ kind : Failures, response : { << >> } ] \cup [ kind : { "ok" }, response : Responses ]

Answers ==
    { [ read |-> TRUE, eof |-> TRUE, line |-> << >> ] }
       \cup [ read : { TRUE }, eof : { FALSE },
              line : { <<"y">>, <<" ","Y","e","s">>, <<"n">>, <<"n","y">>, << >> } ]

\* what ends interactive_loop: end of input or one of the three words
Banishers ==
    { [ eof |-> TRUE, line |-> << >> ] }
       \cup [ eof : { FALSE }, line : { <<"e","x","i","t">>, <<" ","Q","u","i","t">> } ]

-----------------------------------------------------------------------------
(* main, interactive_loop and send_prompt as a state machine               *)

NoPending == [ file_path |-> << >>, content |-> << >> ]

Init ==
    /\ fs \in InitialDirs
    /\ pc = "idle"
    /\ interactive \in BOOLEAN
    /\ auto_apply \in BOOLEAN
    /\ auto_yes \in BOOLEAN
    /\ force_code \in BOOLEAN
    /\ nprompts = 0
    /\ prompt = << >>
    /\ mode = "none"
    /\ tasks = << >>
    /\ idx = 0
    /\ pending = NoPending
    /\ fs0 = fs
    /\ log = << >>
    /\ fin = << >>
    /\ fout = << >>
    /\ detected = FALSE

\* Dispatch with the test "not has_refs and is_mod" before the detection lost
DispatchDetectingAlways(f, p, force) ==
    IF has_multiple_file_references(p)
    THEN { [ mode |-> "multi", tasks |-> process_multiple_file_references(f, p, force),
             detects |-> FALSE ] }
    ELSE { IF detected_files # << >>
           THEN [ mode |-> "context", tasks |-> detected_files, detects |-> TRUE ]
           ELSE [ mode |-> "single", tasks |-> << process_file_references(f, p, force) >>,
                  detects |-> TRUE ] :
           detected_files \in detect_context_files(f, p) }

\* send_prompt, lines 38-54: which of the three paths the prompt takes, and
\* whether detect_context_files is called on the way.  The single-prompt path
\* keeps the processed prompt as its one task.
Dispatch(f, p, force) ==
    IF has_multiple_file_references(p)
    THEN { [ mode |-> "multi", tasks |-> process_multiple_file_references(f, p, force),
             detects |-> FALSE ] }
    ELSE LET r == process_file_references(f, p, force)
         IN  IF ~r.has_refs /\ r.is_mod
             THEN { IF detected_files # << >>
                    THEN [ mode |-> "context", tasks |-> detected_files, detects |-> TRUE ]
                    ELSE [ mode |-> "single", tasks |-> << r >>, detects |-> TRUE ] :
                    detected_files \in detect_context_files(f, p) }
             ELSE { [ mode |-> "single", tasks |-> << r >>, detects |-> FALSE ] }

\* send_prompt(p, ...) runs up to its first request
ReadPromptWith(p) ==
    /\ pc = "idle"
    /\ nprompts < MaxPrompts
    /\ \E d \in Dispatch(fs, p, force_code) :
          /\ prompt' = p
          /\ mode' = d.mode
          /\ tasks' = d.tasks
          /\ idx' = IF d.tasks = << >> THEN 0 ELSE 1
          /\ pc' = IF d.tasks = << >> THEN "return" ELSE "request"
          /\ detected' = d.detects
    /\ nprompts' = nprompts + 1
    /\ fs0' = fs
    /\ log' = << >>
    /\ pending' = NoPending
    /\ UNCHANGED << fs, interactive, auto_apply, auto_yes, force_code >>

\* main or interactive_loop hands a prompt to send_prompt, which runs up to its
\* first request
ReadPrompt ==
    /\ \E p \in Prompts : ReadPromptWith(p)
    /\ UNCHANGED << fin, fout >>

\* the file a fan-out task is about
TaskFile == IF mode = "multi" THEN tasks[idx].file_path ELSE tasks[idx]

\* the prompt sent for the current task
TaskPrompt ==
    IF mode = "single" THEN tasks[1].processed
    ELSE IF mode = "multi" THEN tasks[idx].processed_prompt
    ELSE process_file_references(
            fs,
            prompt \o <<" ","i","n"," ","t","h","e"," ","f","i","l","e"," ","@">>
                   \o PathName(tasks[idx]),
            force_code).processed

\* what is done with a response once it is printed, up to the confirmation
Apply(response) ==
    IF ~AppliesChanges(auto_apply) THEN NoProposal(<< >>)
    ELSE IF mode = "single" THEN apply_code_changes(fs, response, prompt, force_code)
    ELSE IF mode = "multi"
    THEN apply_single_file_changes(fs, idx, response, tasks[idx].file_path,
                                   tasks[idx].original_prompt, force_code)
    ELSE apply_single_file_changes(fs, idx, response, tasks[idx], prompt, force_code)

\* Advance that stays on its task while there are tasks left: the request is
\* made again
AdvanceRepeating ==
    IF mode # "single" /\ idx < Len(tasks)
    THEN pc' = "request" /\ idx' = idx
    ELSE pc' = "return" /\ idx' = idx

\* the loop goes on with the next task, or send_prompt returns
Advance ==
    IF mode # "single" /\ idx < Len(tasks)
    THEN pc' = "request" /\ idx' = idx + 1
    ELSE pc' = "return" /\ idx' = idx

TaskNo == IF mode = "single" THEN 0 ELSE idx

\* the write, if it was approved, takes effect and is logged after `before`
Written(before, w) ==
    /\ fs' = w.fs
    /\ log' = before \o w.events

\* the request failed: sys.exit, or the loop continues with the next task
Failed(sent, kind) ==
    /\ log' = log \o sent \o << Event("fail", TaskNo, << >>, << kind >>, FALSE, NoAnswer) >>
    /\ IF OnFailure(mode) = "exit"
       THEN pc' = "exited" /\ idx' = idx
       ELSE Advance
    /\ UNCHANGED << fs, pending >>

\* a response arrived and was printed; a is what the applier proposes
Answered(before, a) ==
    IF ~a.proposes
    THEN /\ log' = before \o a.events
         /\ Advance
         /\ UNCHANGED << fs, pending >>
    ELSE IF auto_yes
    THEN /\ Written(before \o a.events,
                    ConfirmAndWrite(fs, TaskNo, a.file_path, a.content, TRUE, NoAnswer))
         /\ Advance
         /\ UNCHANGED pending
    ELSE /\ pc' = "confirm"
         /\ pending' = [ file_path |-> a.file_path, content |-> a.content ]
         /\ log' = before \o a.events
         /\ UNCHANGED << fs, idx >>

RequestOutcome(o, sent) ==
    IF o.kind \in Failures
    THEN Failed(sent, o.kind)
    ELSE Answered(log \o sent
                      \o << Event("response", TaskNo, << >>, o.response, TRUE, NoAnswer) >>,
                  Apply(o.response))

\* One request with the outcome o and all that follows it up to the next read
\* of standard input
RequestWith(o) ==
    /\ pc = "request"
    /\ RequestOutcome(o, << Event("request", TaskNo,
                                  (IF mode = "single" THEN << >> ELSE TaskFile),
                                  FullPrompt(TaskPrompt), TRUE, NoAnswer) >>)
    /\ UNCHANGED << interactive, auto_apply, auto_yes, force_code, nprompts, prompt,
                    mode, tasks, fs0, detected >>

Request ==
    /\ \E o \in Outcomes : RequestWith(o)
    /\ UNCHANGED << fin, fout >>

\* input() in show_diff_and_confirm returns answer, and all that follows
ConfirmWith(answer) ==
    /\ pc = "confirm"
    /\ Written(log, ConfirmAndWrite(fs, TaskNo, pending.file_path, pending.content,
                                    auto_yes, answer))
    /\ pending' = NoPending
    /\ Advance
    /\ UNCHANGED << interactive, auto_apply, auto_yes, force_code, nprompts, prompt,
                    mode, tasks, fs0, detected >>

Confirm ==
    /\ \E answer \in Answers : ConfirmWith(answer)
    /\ UNCHANGED << fin, fout >>

\* send_prompt returns: to interactive_loop, or main ends
Return ==
    /\ pc = "return"
    /\ pc' = IF interactive THEN "idle" ELSE "done"
    /\ prompt' = << >>
    /\ mode' = "none"
    /\ tasks' = << >>
    /\ idx' = 0
    /\ log' = << >>
    /\ fs0' = fs
    /\ detected' = FALSE
    /\ UNCHANGED << fs, interactive, auto_apply, auto_yes, force_code, nprompts,
                    pending, fin, fout >>

\* interactive_loop ends: end of input, or exit / quit / banish
Banish ==
    /\ pc = "idle"
    /\ interactive
    /\ \E u \in Banishers :
          \/ u.eof
          \/ Lower(Strip(u.line)) \in { <<"e","x","i","t">>, <<"q","u","i","t">>,
                                        <<"b","a","n","i","s","h">> }
    /\ pc' = "done"
    /\ UNCHANGED << fs, interactive, auto_apply, auto_yes, force_code, nprompts,
                    prompt, mode, tasks, idx, pending, fs0, log, fin, fout, detected >>

Next == ReadPrompt \/ Request \/ Confirm \/ Return \/ Banish

Spec == Init /\ [][Next]_vars

-----------------------------------------------------------------------------
(* What the running send_prompt did, read off its log                      *)

At(op) == { i \in 1..Len(log) : log[i].op = op }

\* fs0 with the logged writes l[k..] made, in order
RECURSIVE Replayed(_, _, _)
Replayed(f, l, k) ==
    IF k > Len(l) THEN f
    ELSE Replayed((IF l[k].op = "write" THEN WriteText(f, l[k].file, l[k].text) ELSE f),
                  l, k + 1)

\* the files as the event logged at i found them
Before(i) == Replayed(fs0, SubSeq(log, 1, i - 1), 1)

\* the file system is the one send_prompt found, changed by the logged writes
\* and by nothing else
OnlyLoggedWrites == fs = Replayed(fs0, log, 1)

\* an answer typed on standard input whose first non-blank character is y or Y
SaysYes(a) ==
    /\ a.read
    /\ ~a.eof
    /\ \E i \in 1..Len(a.line) :
          /\ a.line[i] \in { "y", "Y" }
          /\ \A j \in 1..(i - 1) : a.line[j] \in { " ", "\t" }

FanOut == mode \in { "multi", "context" }

\* C1: every write of a file comes right after a show_diff_and_confirm for the
\* same file and the same content that returned approval (auto_yes, or an
\* answer starting with y), on all three paths; no file changes otherwise.
C1_WriteOnlyAfterApproval ==
    /\ \A i \in At("write") :
          /\ i > 1
          /\ log[i - 1].op = "confirm"
          /\ log[i - 1].ok
          /\ log[i - 1].file = log[i].file
          /\ log[i - 1].text = log[i].text
          /\ log[i - 1].task = log[i].task
          /\ (auto_yes /\ ~log[i - 1].answer.read) \/ SaysYes(log[i - 1].answer)
    /\ OnlyLoggedWrites

\* a fan-out run in which a typed answer approved a write and another answer
\* refused one
C1_Witness ==
    /\ FanOut
    /\ \E i \in At("write") : log[i - 1].answer.read /\ fs # fs0
    /\ \E i \in At("confirm") : ~log[i].ok

\* a fenced block that embeds file n as the resolver writes it
FileBlock(f, n) ==
    <<"\n","F","i","l","e",":"," ">> \o n \o <<"\n","^","^","^","\n">>
       \o f[n].content \o <<"\n","^","^","^">>

\* the existing files a request of the running send_prompt is to show: the
\* task's file in fan-out, the referenced file otherwise
ShownBy(e) ==
    { n \in { FindRefs(prompt)[k] : k \in 1..Len(FindRefs(prompt)) } :
        Exists(fs0, n) /\ (mode = "multi" => e.file = n) }

\* C2: for a prompt not classified as modification, force unset, nothing is
\* extracted, no confirmation is asked and no file is written, on every path
\* and whatever the flags and the response are; each request still embeds the
\* content of the file it references.
C2_ExplanationNeverWrites ==
    (mode # "none" /\ ~force_code /\ ~is_modification_request(prompt)) =>
        /\ At("extract") = {} /\ At("confirm") = {} /\ At("write") = {}
        /\ pc # "confirm"
        /\ fs = fs0
        /\ mode # "context"
        /\ \A i \in At("request") : \A n \in ShownBy(log[i]) :
              Contains(log[i].text, FileBlock(fs0, n))

\* an explanation prompt with two references, auto_apply and auto_yes set, both
\* tasks answered with a code block
C2_Witness ==
    /\ pc = "return" /\ mode = "multi" /\ Len(tasks) = 2
    /\ ~force_code /\ auto_apply /\ auto_yes
    /\ ~is_modification_request(prompt)
    /\ Cardinality(At("response")) = 2
    /\ \A i \in At("response") : HasBlock(log[i].text)

\* C3: with auto_apply false nothing is extracted, no confirmation is asked
\* and no file is written, for every prompt, force flag, auto_yes and response;
\* the files when send_prompt returns are the files it found.
C3_NoApplyNeverWrites ==
    ~auto_apply =>
        /\ At("extract") = {} /\ At("confirm") = {} /\ At("write") = {}
        /\ pc # "confirm"
        /\ fs = fs0
        /\ fs \in InitialDirs

\* print-only, force and auto_yes set, a modification prompt with a reference
\* answered with a code block
C3_Witness ==
    /\ ~auto_apply /\ force_code /\ auto_yes
    /\ pc = "return"
    /\ FindRefs(prompt) # << >>
    /\ is_modification_request(prompt)
    /\ \E i \in At("response") : HasBlock(log[i].text)

C5_SingleFailureIsFatal ==
    /\ (mode = "single" /\ At("fail") # {}) => pc = "exited"
    /\ pc = "exited" =>
          /\ mode = "single"
          /\ Len(log) = 2 /\ log[1].op = "request" /\ log[2].op = "fail"
          /\ log[2].text[1] \in Failures
          /\ fs = fs0
          /\ ~ENABLED Next

\* an interactive session with auto_apply set that ended on a failed request
C5_Witness == pc = "exited" /\ interactive /\ auto_apply /\ nprompts < MaxPrompts + 1

\* C6: show_diff_and_confirm approves iff auto_yes is set or the answer,
\* trimmed and lower-cased, starts with y; end of input refuses.  A refusal
\* writes nothing, is not fatal and lets the next task run; an approval
\* makes the file hold exactly the proposed content.
C6_ConfirmDecides ==
    /\ OnlyLoggedWrites
    /\ \A i \in At("confirm") :
          /\ log[i].ok <=> (auto_yes \/ SaysYes(log[i].answer))
          /\ log[i].answer.eof => ~log[i].ok
          /\ IF log[i].ok
             THEN /\ i < Len(log)
                  /\ log[i + 1].op = "write"
                  /\ log[i + 1].file = log[i].file
                  /\ log[i + 1].text = log[i].text
                  /\ Replayed(fs0, SubSeq(log, 1, i + 1), 1)[log[i].file]
                        = [ exists |-> TRUE, content |-> log[i].text ]
             ELSE /\ pc # "exited"
                  /\ Replayed(fs0, SubSeq(log, 1, i), 1)
                        = Replayed(fs0, SubSeq(log, 1, i - 1), 1)
                  /\ IF i < Len(log)
                     THEN log[i + 1].op = "request" /\ log[i + 1].task = log[i].task + 1
                     ELSE IF FanOut /\ log[i].task < Len(tasks)
                     THEN pc = "request" /\ idx = log[i].task + 1
                     ELSE pc = "return"

\* in fan-out the first change was refused at end of input and the second,
\* answered " Yes", was written
C6_Witness ==
    /\ FanOut
    /\ \E i \in At("confirm") : log[i].task = 1 /\ log[i].answer.eof /\ ~log[i].ok
    /\ \E i \in At("confirm") :
          /\ log[i].task = 2 /\ log[i].ok
          /\ log[i].answer.line = <<" ","Y","e","s">>
          /\ fs[log[i].file].content = log[i].text

\* the one file a single-prompt run refers to, when it exists and changes to
\* it are asked for
SingleTarget ==
    /\ mode = "single"
    /\ Len(FindRefs(prompt)) = 1
    /\ Exists(fs0, FindRefs(prompt)[1])
    /\ is_modification_request(prompt) \/ force_code

\* code the merge policy takes for a new function
ShortDef(code) ==
    Len(Strip(code)) < SHORT_CODE_LIMIT /\ Contains(code, <<"d","e","f"," ">>)

\* C7 as claimed: with one @name to an existing file and short extracted code
\* containing "def ", the proposed content is the existing content followed by
\* the code, and the confirmed write leaves the old content with the code
\* appended.
C7_SingleAppends ==
    SingleTarget =>
        \A i \in At("confirm") :
            LET ref  == FindRefs(prompt)[1]
                old  == fs0[ref].content
                code == extract_code_for_file(log[i - 2].text, << ref >>)
            IN  ShortDef(code) =>
                   /\ log[i].text \in { old \o code, old \o <<"\n","\n">> \o code }
                   /\ log[i].ok => fs[ref].content = log[i].text

\* C7: with one @name to an existing file, the proposed content is the code
\* extracted for that file as it is, whatever its length and whether or not it
\* contains "def "; the confirmed write replaces the old content by that code.
C7_SingleReplaces ==
    SingleTarget =>
        \A i \in At("confirm") :
            LET ref  == FindRefs(prompt)[1]
                code == extract_code_for_file(log[i - 2].text, << ref >>)
            IN  /\ log[i - 2].op = "response" /\ log[i - 1].op = "extract"
                /\ log[i].file = ref
                /\ log[i].text = code
                /\ log[i].ok => fs[ref] = [ exists |-> TRUE, content |-> code ]

\* "fix @a.py"-like run: short code with "def " was approved and written over
\* a file that held something else
C7_Witness ==
    /\ SingleTarget
    /\ \E i \in At("write") :
          /\ ShortDef(log[i].text)
          /\ fs0[log[i].file].content # << >>
          /\ fs[log[i].file].content = log[i].text
          /\ ~StartsWith(fs[log[i].file].content, fs0[log[i].file].content)

\* C8 as claimed: on the multi-reference path an approved change leaves the
\* file holding exactly the code extracted from the task's response.
C8_FanOutReplaces ==
    mode = "multi" =>
        \A i \in At("write") :
            fs[log[i].file].content
               = extract_code_for_file(log[i - 3].text, << PathName(log[i].file) >>)

\* text is what the merge policy makes of the existing file `was` and code
MergedInto(was, code, text) ==
    /\ was.exists
    /\ text = IF ShortDef(code) THEN was.content \o <<"\n","\n">> \o code
              ELSE IF 10 * Len(code) > 8 * Len(was.content) THEN was.content
              ELSE was.content
                      \o <<"\n","\n","#"," ","A","d","d","e","d"," ","b","y"," ",
                           "G","h","o","s","t","C","o","d","e","r",":","\n">>
                      \o code

\* C8: on the multi-reference path an approved change writes the merge of the
\* file's content with the extracted code: content, blank line, code when the
\* stripped code is under 500 characters and contains "def "; else the content
\* unchanged when the code is longer than 80% of it; else content, the
\* "# Added by GhostCoder:" marker, code.
C8_FanOutMerges ==
    mode = "multi" =>
        \A i \in At("write") :
            /\ log[i - 3].op = "response"
            /\ log[i - 2].op = "extract"
            /\ log[i - 2].text =
                  extract_code_for_file(log[i - 3].text, << PathName(log[i].file) >>)
            /\ MergedInto(Before(i)[log[i].file], log[i - 2].text, log[i].text)
            /\ Replayed(fs0, SubSeq(log, 1, i), 1)[log[i].file].content = log[i].text

\* a multi-reference run in which the append branch wrote and a later task's
\* write left the file as it found it
C8_Witness ==
    /\ mode = "multi"
    /\ \E i \in At("write") : ShortDef(log[i - 2].text) /\ log[i].text # log[i - 2].text
    /\ \E i \in At("write") :
          /\ ~ShortDef(log[i - 2].text)
          /\ log[i].text \in { Before(i)[log[i].file].content }

\* the words the prompts of the function runs are made of
W_FIX == <<"f","i","x">>
W_EXPLAIN == <<"E","x","p","l","a","i","n">>
W_WHY == <<"W","H","Y">>
W_ADDRESS == <<"a","d","d","r","e","s","s">>
W_HI == <<"h","i">>
W_SHOW == <<"s","h","o","w">>
W_ME == <<"m","e">>
W_SEE == <<"s","e","e">>

-----------------------------------------------------------------------------
(* The classifier and the resolver applied on their own: fin is the         *)
(* argument, fout the result                                                *)

MaxWords == 2

\* ws joined by single spaces
RECURSIVE JoinWords(_)
JoinWords(ws) ==
    IF Len(ws) = 0 THEN << >>
    ELSE IF Len(ws) = 1 THEN ws[1]
    ELSE ws[1] \o << " " >> \o JoinWords(Tail(ws))

\* the prompts of at most MaxWords words of V
PromptsOver(V) ==
    { JoinWords(ws) : ws \in UNION { [ 1..k -> V ] : k \in 0..MaxWords } }

ClassifyWords ==
    { W_FIX, W_EXPLAIN, W_WHY, W_ADDRESS, W_HI, W_SHOW, W_ME }

Idle(start) ==
    /\ pc = start
    /\ interactive = FALSE /\ auto_apply = FALSE /\ auto_yes = FALSE
    /\ force_code = FALSE
    /\ nprompts = 0 /\ prompt = << >> /\ mode = "none" /\ tasks = << >> /\ idx = 0
    /\ pending = NoPending /\ log = << >>
    /\ fs0 = fs
    /\ fout = << >>
    /\ detected = FALSE

InitClassify ==
    /\ fs = InitialFs
    /\ Idle("classify")
    /\ fin \in [ prompt : PromptsOver(ClassifyWords), force : BOOLEAN ]

\* the classification as process_file_references returns it and as the two
\* appliers test it
Classify ==
    /\ pc = "classify"
    /\ fout' = [ resolver |-> process_file_references(fs, fin.prompt, fin.force).is_mod,
                 applier  |-> ShouldApply(fin.prompt, fin.force) ]
    /\ pc' = "classified"
    /\ UNCHANGED << fs, interactive, auto_apply, auto_yes, force_code, nprompts, prompt,
                    mode, tasks, idx, pending, fs0, log, fin, detected >>

SpecClassify == InitClassify /\ [][Classify]_vars

\* some word of K occurs in s
HasWord(s, K) ==
    \E w \in K : \E i \in 1..Len(s) :
        i + Len(w) - 1 <= Len(s) /\ SubSeq(s, i, i + Len(w) - 1) = w

\* C9: the classification the resolver returns and the appliers test is
\* modification iff force is set, or the lower-cased prompt contains no
\* explanation keyword and at least one modification keyword, as substrings;
\* so both kinds of keyword without force give explanation, a modification
\* keyword alone gives modification, neither gives not modification.
C9_Classification ==
    pc = "classified" =>
        LET lower == Lower(fin.prompt)
            expl  == HasWord(lower, EXPLANATION_WORDS)
            modi  == HasWord(lower, MODIFICATION_WORDS)
        IN  /\ fout.resolver <=> (fin.force \/ (~expl /\ modi))
            /\ fout.applier <=> (fin.force \/ (~expl /\ modi))
            /\ (expl /\ modi /\ ~fin.force) => ~fout.resolver /\ ~fout.applier
            /\ (modi /\ ~expl) => fout.resolver /\ fout.applier
            /\ (~modi /\ ~expl /\ ~fin.force) => ~fout.resolver /\ ~fout.applier

\* "WHY fix", force unset: both kinds of keyword, one of them in upper case,
\* classified as explanation
C9_Witness ==
    /\ pc = "classified"
    /\ fin = [ prompt |-> JoinWords(<< W_WHY, W_FIX >>), force |-> FALSE ]
    /\ fout = [ resolver |-> FALSE, applier |-> FALSE ]

F_A == << "a" >>
F_B == << "b" >>
F_M == << "m" >>

RefWords == { W_FIX, W_SEE, << "@" >> \o F_A, << "@" >> \o F_B, << "@" >> \o F_M }

\* a and b exist, m does not; a holds plain text or text with "@b" in it
RefFs ==
    { [ q \in { F_A, F_B, F_M } |->
          IF q = F_A THEN File(c) ELSE IF q = F_B THEN File(<< "B" >>) ELSE Missing ] :
      c \in { << "A" >>, <<"u","s","e"," ","@","b">> } }

InitRefs ==
    /\ fs \in RefFs
    /\ Idle("resolve")
    /\ fin \in [ prompt : PromptsOver(RefWords), force : BOOLEAN ]

Resolve ==
    /\ pc = "resolve"
    /\ fout' = process_file_references(fs, fin.prompt, fin.force)
    /\ pc' = "resolved"
    /\ UNCHANGED << fs, interactive, auto_apply, auto_yes, force_code, nprompts, prompt,
                    mode, tasks, idx, pending, fs0, log, fin, detected >>

SpecRefs == InitRefs /\ [][Resolve]_vars

\* what stands for the token @n: the fenced block of an existing file, the
\* marker of a missing one
Shown(f, n) ==
    IF Exists(f, n) THEN FileBlock(f, n)
    ELSE <<"[","F","i","l","e"," ","'">> \o n
            \o <<"'"," ","n","o","t"," ","f","o","u","n","d","]">>

\* s from position i on with every @name token replaced where it stands
RECURSIVE InPlace(_, _, _)
InPlace(f, s, i) ==
    IF i > Len(s) THEN << >>
    ELSE IF i \in RefStarts(s)
    THEN Shown(f, RefName(s, i)) \o InPlace(f, s, i + Len(RefName(s, i)) + 1)
    ELSE << s[i] >> \o InPlace(f, s, i + 1)

Occurrences(s, w) == Cardinality({ i \in 1..Len(s) : MatchAt(s, i, w) })

\* C10: for a prompt whose @name tokens differ from each other, the returned
\* prompt holds the fenced "File: <name>" block with the literal content of
\* each existing file once, the not-found marker for each missing one with
\* has_refs true, and each of them in the place of its token.
C10_RefsEmbedded ==
    (pc = "resolved"
       /\ \A j, k \in 1..Len(FindRefs(fin.prompt)) :
             j # k => FindRefs(fin.prompt)[j] # FindRefs(fin.prompt)[k]) =>
        /\ \A k \in 1..Len(FindRefs(fin.prompt)) :
              /\ Occurrences(fout.processed, Shown(fs, FindRefs(fin.prompt)[k])) = 1
              /\ fout.has_refs
        /\ StartsWith(fout.processed, InPlace(fs, fin.prompt, 1))

\* how often the token @n stands in the prompt
Times(p, n) == Cardinality({ k \in 1..Len(FindRefs(p)) : FindRefs(p)[k] = n })

\* the names a prompt refers to more than once
Repeated(p) == { n \in { FindRefs(p)[k] : k \in 1..Len(FindRefs(p)) } : Times(p, n) > 1 }

\* what every substitution for @n starts with: the header of the file block, or
\* the marker
Opening(f, n) ==
    IF Exists(f, n)
    THEN <<"\n","F","i","l","e",":"," ">> \o n \o <<"\n","^","^","^","\n">>
    ELSE Shown(f, n)

\* no file the prompt embeds holds the text of one of the prompt's tokens
NotInContents(f, p) ==
    \A j, k \in 1..Len(FindRefs(p)) :
        Exists(f, FindRefs(p)[k]) =>
            ~Contains(f[FindRefs(p)[k]].content, << "@" >> \o FindRefs(p)[j])

\* C11 as claimed: of a token that stands more than once in the prompt only
\* the first occurrence is replaced; the later ones remain as the text @name.
C11_FirstOccurrenceOnly ==
    pc = "resolved" =>
        \A n \in Repeated(fin.prompt) :
            /\ Occurrences(fout.processed, Opening(fs, n)) = 1
            /\ Occurrences(fout.processed, << "@" >> \o n) = Times(fin.prompt, n) - 1

\* C11: a token that stands k > 1 times in the prompt is substituted k times,
\* once per match: the returned prompt holds k block headers (or k markers)
\* for it, and, unless an embedded file's content holds the text of one of the
\* prompt's tokens, it holds the whole block k times and no occurrence of
\* @name remains.
C11_EveryOccurrenceReplaced ==
    pc = "resolved" =>
        \A n \in Repeated(fin.prompt) :
            /\ Occurrences(fout.processed, Opening(fs, n)) = Times(fin.prompt, n)
            /\ NotInContents(fs, fin.prompt) =>
                  /\ Occurrences(fout.processed, << "@" >> \o n) = 0
                  /\ Occurrences(fout.processed, Shown(fs, n)) = Times(fin.prompt, n)

\* "@b @b" with b existing: the returned prompt holds b's block twice and no @b
C11_Witness ==
    /\ pc = "resolved"
    /\ fin.prompt = <<"@","b"," ","@","b">>
    /\ Occurrences(fout.processed, FileBlock(fs, F_B)) = 2
    /\ ~Contains(fout.processed, << "@" >>)

\* the distinct names the prompt of the running send_prompt refers to
Names(p) == { FindRefs(p)[k] : k \in 1..Len(FindRefs(p)) }

\* C12: send_prompt fans out exactly when the prompt holds more than one
\* distinct @name token, and then no file gets more than one request; a prompt
\* that only repeats one token goes the single-prompt way with one request.
C12_FanOutIffDistinct ==
    mode # "none" =>
        /\ mode = "multi" <=> Cardinality(Names(prompt)) > 1
        /\ mode = "multi" =>
              \A i, j \in At("request") : log[i].file = log[j].file => i = j
        /\ (Cardinality(Names(prompt)) = 1 /\ pc = "return") =>
              Cardinality(At("request")) = 1

\* the names the prompt refers to that were no file when send_prompt began
MissingNames == { n \in Names(prompt) : ~Exists(fs0, n) }

\* C13 as claimed: in single-reference and in fan-out mode alike a missing
\* file is not fatal, a request is still sent for it, and the outgoing prompt
\* holds its not-found marker.
C13_MissingSameInBothModes ==
    (mode \in { "single", "multi" } /\ pc \in { "return", "confirm" }) =>
        \A n \in MissingNames :
            \E i \in At("request") : Contains(log[i].text, Shown(fs0, n))

\* single-reference mode: one request, holding the marker of every file of S
MarkedInOneRequest(S) ==
    /\ Cardinality(At("request")) = 1
    /\ \A n \in S : Contains(log[1].text, Shown(fs0, n))

\* fan-out over the references refs: the files of S have no task and no
\* request, and the tasks are the existing files of refs in their order
SkippedInFanOut(S, refs) ==
    /\ \A n \in S :
          /\ \A k \in 1..Len(tasks) : tasks[k].file_path # n
          /\ \A i \in At("request") :
                /\ log[i].file # n
                /\ ~Contains(log[i].text, Shown(fs0, n))
                /\ ~Contains(log[i].text, << "@" >> \o n)
    /\ Len(tasks) = Cardinality({ k \in 1..Len(refs) : Exists(fs0, refs[k]) })
    /\ \A k \in 1..Len(tasks) : Exists(fs0, tasks[k].file_path)
    /\ tasks = << >> => pc = "return" /\ log = << >>

\* C13: a missing file is never fatal.  In single-reference mode the one
\* request holds its not-found marker.  In fan-out mode it is skipped: it gets
\* no task and no request, no request holds its marker or its token, the
\* tasks are the existing files in the order of their tokens, and with no
\* existing file send_prompt returns without any request.
C13_MissingSkippedInFanOut ==
    /\ (pc = "exited") => At("fail") # {}
    /\ (mode = "single" /\ pc # "request") => MarkedInOneRequest(MissingNames)
    /\ mode = "multi" => SkippedInFanOut(MissingNames, FindRefs(prompt))

\* "fix @m.py @a.py" ran to its end with one request, the one for a.py
C13_Witness ==
    /\ mode = "multi" /\ pc = "return"
    /\ MissingNames = { M_PY }
    /\ Cardinality(At("request")) = 1
    /\ \A i \in At("request") : log[i].file = A_PY

-----------------------------------------------------------------------------
(* The extractor applied on its own: fin.response and fin.hint are its      *)
(* arguments; fin.names and fin.bodies tell what the response was made of   *)

T_NONE == << >>
T_PY == <<"p","y">>
T_CPP == <<"c","+","+">>

\* bodies of blocks and the prose around them
BODY_X == <<"x","\n">>
BODY_Y == <<" ","y"," ","\n">>
BODY_Z == <<"\n","\n","z","\n">>
PROSE_OK == <<"o","k","\n">>
PROSE_BYE == <<"\n","b","y","e">>

\* an opening fence line with tag and trailing blanks, the body, the closing
\* fence
FencedBlock(tag, sp, body) == Fence \o tag \o sp \o << "\n" >> \o body \o Fence

Bodies == { BODY_X, BODY_Y, BODY_Z, << >> }

\* responses with exactly one fenced block, with prose before or after it
OneBlockInputs ==
    { [ kind |-> "one", response |-> pre \o FencedBlock(tag, sp, body) \o post,
        hint |-> << >>, names |-> << >>, bodies |-> << body >> ] :
      pre \in { << >>, PROSE_OK }, tag \in { T_NONE, T_PY, T_CPP },
      sp \in { << >>, << " " >> }, body \in Bodies, post \in { << >>, PROSE_BYE } }

\* responses without a fenced block
NoBlockInputs ==
    { [ kind |-> "none", response |-> r, hint |-> << >>, names |-> << >>,
        bodies |-> << >> ] :
      r \in { << >>, <<"o","k">>, <<"^","^","x","^","^">> } }

D_PY == <<"d","a","t","a",".","p","y">>
B_PY == <<"b",".","p","y">>

\* the body of the block given for a file
BodyOf(n) == << n[1], "=", "1", "\n" >>

\* a line naming the file, then its block
NamedBlock(n, tag) ==
    n \o << ":", "\n" >> \o FencedBlock(tag, << >>, BodyOf(n)) \o << "\n" >>

\* responses of two blocks, each after a line naming its file, asked for one
\* of the two files
NamedInputs ==
    { [ kind |-> "named",
        response |-> NamedBlock(q.names[1], q.tag) \o NamedBlock(q.names[2], q.tag),
        hint |-> << q.names[q.h] >>, names |-> q.names,
        bodies |-> << BodyOf(q.names[1]), BodyOf(q.names[2]) >> ] :
      q \in { q \in [ names : { A_PY, B_PY, D_PY } \X { A_PY, B_PY, D_PY }, h : 1..2,
                      tag : { T_NONE, T_PY, T_CPP } ] : q.names[1] # q.names[2] } }

InitExtract ==
    /\ fs = InitialFs
    /\ Idle("extract")
    /\ fin \in OneBlockInputs \cup NoBlockInputs \cup NamedInputs

Extract ==
    /\ pc = "extract"
    /\ fout' = extract_code_for_file(fin.response, fin.hint)
    /\ pc' = "extracted"
    /\ UNCHANGED << fs, interactive, auto_apply, auto_yes, force_code, nprompts, prompt,
                    mode, tasks, idx, pending, fs0, log, fin, detected >>

SpecExtract == InitExtract /\ [][Extract]_vars

\* s without its leading and trailing white space
Trimmed(s) ==
    LET ink == { i \in 1..Len(s) : s[i] \notin { " ", "\t", "\n", "\r" } }
    IN  IF ink = {} THEN << >>
        ELSE SubSeq(s, CHOOSE i \in ink : \A j \in ink : i <= j,
                       CHOOSE i \in ink : \A j \in ink : j <= i)

\* C14: without a filename hint, a response with exactly one fenced block
\* (fence line with optional language tag, body, closing fence) gives that
\* block's interior, trimmed; a response without a fenced block gives "".
C14_SingleBlockExtracted ==
    pc = "extracted" =>
        /\ fin.kind = "one" => fout = Trimmed(fin.bodies[1])
        /\ fin.kind = "none" => fout = << >>

\* the place in fin.names of the file asked for
Own == CHOOSE k \in 1..Len(fin.names) : fin.names[k] = fin.hint[1]

\* the first place in fin.names whose line holds the name asked for
FirstMention ==
    CHOOSE k \in 1..Len(fin.names) :
        /\ HasWord(fin.names[k], { fin.hint[1] })
        /\ \A j \in 1..(k - 1) : ~HasWord(fin.names[j], { fin.hint[1] })

AppendedTwice(i, j) ==
    /\ i < j
    /\ log[i].file = log[j].file
    /\ log[i - 2].op = "extract" /\ log[j - 2].op = "extract"
    /\ log[i - 2].text = log[j - 2].text
    /\ ShortDef(log[i - 2].text)
    /\ Before(i)[log[i].file].exists
    /\ \A h \in At("write") : (i < h /\ h < j) => log[h].file # log[i].file

\* C16: the append branch of the merge taken twice in a row with the same
\* short code, both times approved and written, leaves the file with its
\* original content followed by two copies of the code, each after its
\* separator: the second merge appends again and removes nothing, so the file
\* holds the code twice more than it did.
C16_AppendTwice ==
    FanOut =>
        \A i, j \in At("write") :
            AppendedTwice(i, j) =>
                LET old   == Before(i)[log[i].file].content
                    code  == log[i - 2].text
                    twice == { old \o s1 \o code \o s2 \o code :
                                 s1, s2 \in { << >>, <<"\n">>, <<"\n","\n">> } }
                IN  /\ log[i].text \in { old \o s1 \o code :
                                            s1 \in { << >>, <<"\n">>, <<"\n","\n">> } }
                    /\ log[j].text \in twice
                    /\ Replayed(fs0, SubSeq(log, 1, j), 1)[log[j].file].content \in twice
                    /\ Occurrences(log[j].text, code) = Occurrences(old, code) + 2

\* a.py referenced twice, the same short function given and approved twice:
\* a.py holds it twice after its old content
C16_Witness ==
    /\ mode = "multi" /\ pc = "return"
    /\ \E i, j \in At("write") :
          /\ AppendedTwice(i, j)
          /\ Occurrences(fs[log[j].file].content, log[j - 2].text) = 2
          /\ StartsWith(fs[log[j].file].content, fs0[log[j].file].content)

\* the text holds blocks of files of the set S only
EmbedsOnly(text, S) ==
    \A i \in 1..Len(text) :
        MatchAt(text, i, <<"\n","F","i","l","e",":"," ">>) =>
            \E n \in S : MatchAt(text, i + 7, n \o << "\n" >>)

\* The requests embed files of S only, and only files of S are shown for
\* confirmation, written, created or changed.
ReferencedOnly(S) ==
    /\ \A i \in At("request") : EmbedsOnly(log[i].text, S)
    /\ \A i \in At("request") \cup At("confirm") \cup At("write") :
          log[i].file # << >> => log[i].file \in S
    /\ \A q \in DOMAIN fs : q \notin S => fs[q] = fs0[q]
    /\ DOMAIN fs \subseteq DOMAIN fs0 \cup S

\* C17: detect_context_files is called exactly when the prompt holds no @name
\* token and is a modification prompt (by its keywords, or by force).  With an
\* @name token, or with an explanation prompt without force, it is not called,
\* the detected-files path is not taken, the requests embed referenced files
\* only and only referenced files are written.
C17_DetectionOnlyWithoutRefs ==
    mode # "none" =>
        /\ detected <=> /\ FindRefs(prompt) = << >>
                        /\ force_code \/ ( /\ ~HasWord(Lower(prompt), EXPLANATION_WORDS)
                                           /\ HasWord(Lower(prompt), MODIFICATION_WORDS) )
        /\ mode = "context" => detected
        /\ ~detected => ReferencedOnly(Names(prompt))


\* "explain app", force unset: the words that make "fix app" select app.py, but
\* no detection; the one request was answered with code and nothing was
\* embedded or written
C17_Witness ==
    /\ prompt = <<"e","x","p","l","a","i","n"," ","a","p","p">>
    /\ ~force_code /\ auto_apply /\ auto_yes
    /\ ~detected /\ mode = "single" /\ pc = "return"
    /\ \E i \in At("response") : HasBlock(log[i].text)
    /\ At("write") = {}

\* the text embeds no file: no "File: <name>" header, and the content of no
\* existing file of f
EmbedsNothing(text, f) ==
    /\ EmbedsOnly(text, {})
    /\ \A n \in DOMAIN f : Exists(f, n) => ~Contains(text, ReadText(f, n))

\* C18: when detect_context_files is called and returns no file (no domain of
\* the prompt scores, or no file clears the threshold), send_prompt goes on to
\* its own single request: one request, which embeds no file, and whatever the
\* response and the flags are nothing is proposed, confirmed or written.  (The
\* path is chosen before the first request, so the choice is looked at there.)
C18_NoFileFallsThrough ==
    detected =>
        /\ log = << >> =>
              (mode = "single" <=> detect_context_files(fs0, prompt) = { << >> })
        /\ mode = "single" =>
              /\ Cardinality(At("request")) <= 1
              /\ pc \in { "return", "exited" } => Cardinality(At("request")) = 1
              /\ \A i \in At("request") : EmbedsNothing(log[i].text, fs0)
              /\ At("extract") = {} /\ At("confirm") = {} /\ At("write") = {}
              /\ pc # "confirm"
              /\ fs = fs0

\* "fix app" in a directory where no file clears the threshold, auto_apply and
\* auto_yes set, answered with a code block
C18_Witness ==
    /\ prompt = <<"f","i","x"," ","a","p","p">>
    /\ detected /\ mode = "single" /\ pc = "return"
    /\ IntentDomains(analyze_prompt_intent(prompt)) # {}
    /\ auto_apply /\ auto_yes
    /\ \E i \in At("response") : HasBlock(log[i].text)
    /\ Cardinality(At("request")) = 1

\* C19: on the detected-files path, the request made for a file embeds the
\* content of that very file as it is when the request is built, carries no
\* not-found marker, and the file later shown for confirmation and written for
\* that request is the same file, wherever it lies below the working directory.
C19_ContextEmbedsOwnFile ==
    mode = "context" =>
        \A i \in At("request") :
            /\ Contains(log[i].text,
                        <<"\n","^","^","^","\n">> \o ReadText(Before(i), log[i].file)
                           \o <<"\n","^","^","^">>)
            /\ ~Contains(log[i].text, <<"[","F","i","l","e"," ","'">>)
            /\ \A j \in At("confirm") \cup At("write") :
                  log[j].task = log[i].task => log[j].file = log[i].file

\* the code extracted for task k of the running send_prompt
ExtractedFor(k) == { log[i].text : i \in { j \in At("extract") : log[j].task = k } }

\* C20: in a fan-out over referenced files, what task K sends, proposes and
\* writes does not depend on what the tasks before it did: the request is the
\* one built from the files as send_prompt found them, and the content shown
\* and written is the merge of the task's own extracted code with its file as
\* send_prompt found it, also when the prompt names a file more than once.
C20_IterationsIndependent ==
    mode = "multi" =>
        /\ \A i \in At("request") :
              log[i].text =
                 FullPrompt(process_multiple_file_references(fs0, prompt, force_code)
                               [log[i].task].processed_prompt)
        /\ \A i \in At("confirm") \cup At("write") :
              \E code \in ExtractedFor(log[i].task) :
                 log[i].text = intelligently_merge_changes(fs0, log[i].file, code)

\* code the merge policy holds to be a whole replacement of the existing file
\* `was`: not a short function, and longer than 80% of the file
LargeFor(was, code) ==
    /\ was.exists
    /\ ~ShortDef(code)
    /\ 10 * Len(code) > 8 * Len(was.content)

\* the confirmation logged at i, asked on the file `was` after the extraction
\* of code, proposes the content of `was`, and `now`, the file after the cycle,
\* is `was`
KeepsFile(i, was, code, now) ==
    LargeFor(was, code) => (log[i].text = was.content /\ now = was)

\* the last event of the cycle the confirmation logged at i belongs to
CycleEnd(i) == IF i < Len(log) /\ log[i + 1].op = "write" THEN i + 1 ELSE i

\* C21: where apply_single_file_changes merges into an existing file and the
\* extracted code is not a short function and is longer than 80% of the
\* file's content, the content proposed is the file's content, and the file
\* after the confirmation, approved or not, is the file before it.
C21_LargeCodeKeepsFile ==
    FanOut =>
        \A i \in At("confirm") :
            /\ log[i - 1].op = "extract"
            /\ KeepsFile(i, Before(i)[log[i].file], log[i - 1].text,
                         Replayed(fs0, SubSeq(log, 1, CycleEnd(i)), 1)[log[i].file])

\* a fan-out in which code longer than 80% of its file was approved and
\* written, and such code was refused for another file: both files are as
\* they were
C21_Witness ==
    /\ FanOut /\ pc = "return"
    /\ \E i \in At("write") :
          /\ LargeFor(Before(i)[log[i].file], log[i - 2].text)
          /\ log[i - 2].text # fs0[log[i].file].content
    /\ \E i \in At("confirm") :
          /\ ~log[i].ok
          /\ LargeFor(Before(i)[log[i].file], log[i - 1].text)
    /\ fs = fs0

\* text is the content of the existing file `was` with the short function
\* code appended, after a blank line unless the content ends in a newline
AppendsWithSeparatorIfNeeded(was, code, text) ==
    (was.exists /\ ShortDef(code)) =>
        text = IF EndsWith(was.content, << "\n" >>)
               THEN was.content \o code
               ELSE was.content \o <<"\n","\n">> \o code

\* C22: in the append branch of the merge (stripped code under 500 characters
\* containing "def ") the blank-line separator is put in only when the
\* existing content does not end in a newline; content that ends in one is
\* followed by the code at once.
C22_SeparatorOnlyIfNeeded ==
    FanOut =>
        \A i \in At("confirm") :
            AppendsWithSeparatorIfNeeded(Before(i)[log[i].file], log[i - 1].text,
                                         log[i].text)

\* the extraction logged at i ended the cycle of its file: nothing was shown
\* for confirmation or written for its task, and what comes next is the
\* request of the next task or the return of send_prompt
EndsCycle(i) ==
    /\ ~log[i].ok
    /\ \A j \in At("confirm") \cup At("write") : log[j].task # log[i].task
    /\ IF i < Len(log)
       THEN /\ FanOut
            /\ log[i + 1].op = "request"
            /\ log[i + 1].task = log[i].task + 1
       ELSE \/ pc = "return" /\ (FanOut => log[i].task = Len(tasks))
            \/ pc = "request" /\ FanOut /\ idx = log[i].task + 1

\* the event logged at i is a non-empty extraction for file n in task k
ExtractedCode(i, n, k) ==
    /\ log[i].op = "extract"
    /\ log[i].text # << >>
    /\ log[i].file = n
    /\ log[i].task = k

\* C23: an extraction that gives no code ends the cycle of its file: nothing
\* is merged or shown, no confirmation is read, the file is not written, the
\* program goes on, in fan-out with the request of the next file.  A
\* confirmation is asked only right after a non-empty extraction for the same
\* file.
C23_NoCodeEndsCycle ==
    /\ \A i \in At("extract") : log[i].text = << >> => EndsCycle(i)
    /\ \A i \in At("confirm") :
          i > 1 /\ ExtractedCode(i - 1, log[i].file, log[i].task)
    /\ pc = "confirm" =>
          log # << >> /\ ExtractedCode(Len(log), pending.file_path, TaskNo)

\* a fan-out with auto_apply in which the first response held no code and the
\* second one did: the second file's confirmation was asked
C23_Witness ==
    /\ FanOut /\ auto_apply
    /\ \E i \in At("extract") :
          /\ log[i].task = 1 /\ log[i].text = << >>
          /\ i < Len(log) /\ log[i + 1].op = "request"
    /\ \E i \in At("confirm") : log[i].task = 2

\* the running send_prompt applies nothing to files: auto_apply is unset, or
\* the prompt is no modification request and force is unset
PrintsOnly == ~auto_apply \/ ~(is_modification_request(prompt) \/ force_code)

\* the event e closes the cycle of its task: the request failed, no code was
\* extracted, the change was refused, or it was written; with `printed`, also
\* a response that was only printed
ClosesTask(e, printed) ==
    \/ e.op = "fail"
    \/ e.op = "extract" /\ e.text = << >>
    \/ e.op = "confirm" /\ ~e.ok
    \/ e.op = "write"
    \/ printed /\ e.op = "response" /\ PrintsOnly

\* the files of the tasks, in their order
TaskFiles == [ k \in 1..Len(tasks) |-> IF mode = "multi" THEN tasks[k].file_path ELSE tasks[k] ]

\* the existing files among the references refs, in their order
RECURSIVE ExistingOf(_, _)
ExistingOf(refs, k) ==
    IF k > Len(refs) THEN << >>
    ELSE (IF Exists(fs0, refs[k]) THEN << refs[k] >> ELSE << >>) \o ExistingOf(refs, k + 1)

\* the tasks are requested in their order, each once, each request right
\* after the event that closed the task before it, and send_prompt returns
\* after the last
Sequential(printed) ==
    /\ pc # "exited"
    /\ (log = << >> /\ mode = "multi") => TaskFiles = ExistingOf(FindRefs(prompt), 1)
    /\ \A i \in At("request") :
          /\ log[i].task \in 1..Len(tasks)
          /\ log[i].file = TaskFiles[log[i].task]
          /\ IF i = 1 THEN log[i].task = 1
             ELSE /\ log[i - 1].task = log[i].task - 1
                  /\ ClosesTask(log[i - 1], printed)
    /\ \A i \in 1..(Len(log) - 1) :
          log[i + 1].op # "request" => log[i + 1].task = log[i].task
    /\ \A i, j \in At("request") : log[i].task = log[j].task => i = j
    /\ pc = "request" => idx = Cardinality(At("request")) + 1
    /\ pc = "return" =>
          /\ Cardinality(At("request")) = Len(tasks)
          /\ log # << >> => ClosesTask(log[Len(log)], printed)

\* C24 as claimed: fan-out handles its tasks in order, one request per task,
\* and the request of task K+1 comes only after task K failed, gave no code,
\* was refused or was written; the run ends after the last task.
C24_SequentialFourEnds == FanOut => Sequential(FALSE)

\* C24: fan-out handles its tasks in the order of the references (or of the
\* detection ranking), one request per task and never a second one, and the
\* request of task K+1 comes only after task K failed, gave no code, was
\* refused, was written, or had its response printed with nothing to apply;
\* the run ends after the last task.
C24_SequentialNoRetry == FanOut => Sequential(TRUE)

\* a print-only fan-out of two tasks that returned: the first response was
\* printed, then the second request was made and failed
C24_Witness ==
    /\ FanOut /\ pc = "return" /\ Len(tasks) = 2
    /\ ~auto_apply
    /\ Cardinality(At("request")) = 2
    /\ \E i \in At("response") : log[i].task = 1 /\ log[i + 1].op = "request"
    /\ \E i \in At("fail") : log[i].task = 2

-----------------------------------------------------------------------------
(* find_relevant_files applied on its own: fs is the project directory,     *)
(* fin.prompt the prompt whose intent scores it is given                    *)

W_APP == <<"a","p","p">>
W_MAIN == <<"m","a","i","n">>
W_ENTRY == <<"e","n","t","r","y">>

RankWords == { W_FIX, W_APP, W_MAIN, W_ENTRY }

\* text that holds k of the five keywords of the domain "main"
KeywordText ==
    << <<"x","\n">>,
       <<"m","a","i","n","\n">>,
       <<"m","a","i","n"," ","a","p","p","\n">>,
       <<"m","a","i","n"," ","a","p","p"," ","e","n","t","r","y","\n">>,
       <<"m","a","i","n"," ","a","p","p"," ","e","n","t","r","y"," ","s","t","a","r","t","u","p","\n">>,
       <<"m","a","i","n"," ","a","p","p","l","i","c","a","t","i","o","n"," ","e","n","t","r","y"," ","s","t","a","r","t","u","p","\n">> >>

\* app<k>.py and core<k>.py hold k keywords of "main"; lib/app1.py is a second
\* app1.py; entry.py is named after a keyword and holds none; x.py holds two
\* keywords under a name that says nothing; .git/app.py lies in a hidden
\* directory and notes.txt is no Python file
KeywordChar == <<"0","1","2","3","4","5">>

AppFile(k) == <<"a","p","p">> \o << KeywordChar[k + 1] >> \o <<".","p","y">>

CoreFile(k) == <<"c","o","r","e">> \o << KeywordChar[k + 1] >> \o <<".","p","y">>

LIB_APP1 == <<"l","i","b","/","a","p","p","1",".","p","y">>
ENTRY_PY == <<"e","n","t","r","y",".","p","y">>
X_PY == <<"x",".","p","y">>
GIT_APP == <<".","g","i","t","/","a","p","p",".","p","y">>
NOTES_TXT == <<"n","o","t","e","s",".","t","x","t">>

RankedFiles == { AppFile(k) : k \in 0..5 } \cup { CoreFile(k) : k \in 0..5 } \cup { LIB_APP1 }

RankPool ==
    [ q \in RankedFiles \cup { ENTRY_PY, X_PY, GIT_APP, NOTES_TXT } |->
        IF q = LIB_APP1 THEN File(KeywordText[2])
        ELSE IF q = ENTRY_PY THEN File(KeywordText[1])
        ELSE IF q \in { X_PY, GIT_APP, NOTES_TXT } THEN File(KeywordText[3])
        ELSE File(KeywordText[(CHOOSE k \in 0..5 : q \in { AppFile(k), CoreFile(k) }) + 1]) ]

\* the pool without the files of S
Without(S) == [ q \in DOMAIN RankPool |-> IF q \in S THEN Missing ELSE RankPool[q] ]

\* the whole pool, the pool less one file, and a directory of three files
RankDirs ==
    { Without({ }) } \cup { Without({ q }) : q \in RankedFiles }
       \cup { Without(RankedFiles \ { AppFile(2), CoreFile(0) }) }

InitRank ==
    /\ fs \in RankDirs
    /\ Idle("rank")
    /\ fin \in [ prompt : PromptsOver(RankWords) ]

\* find_relevant_files with the intent scores of the prompt
Rank ==
    /\ pc = "rank"
    /\ fout' \in find_relevant_files(fs, analyze_prompt_intent(fin.prompt))
    /\ pc' = "ranked"
    /\ UNCHANGED << fs, interactive, auto_apply, auto_yes, force_code, nprompts, prompt,
                    mode, tasks, idx, pending, fs0, log, fin, detected >>

SpecRank == InitRank /\ [][Rank]_vars

\* list is a ranking of candidates as C25 describes it: at most MAX_FILES
\* files, each a candidate with a score above 0.1, the scores never
\* increasing, and no candidate left out scoring higher than one in the list
WellRanked(list, cand, score) ==
    /\ Len(list) <= MAX_FILES
    /\ \A k \in 1..Len(list) : list[k] \in cand /\ 10 * score[list[k]] > ScoreScale
    /\ \A j, k \in 1..Len(list) : j < k => score[list[j]] >= score[list[k]]
    /\ \A q \in cand : \A k \in 1..Len(list) :
          (\A j \in 1..Len(list) : list[j] # q) => score[q] <= score[list[k]]

\* C25: find_relevant_files returns at most 10 files, each scoring above 0.1,
\* in an order of never increasing scores, and no candidate it leaves out
\* scores higher than a file it returns; with no intent score it returns the
\* empty list.
C25_TopRanked ==
    pc = "ranked" =>
        /\ WellRanked(fout, PythonFiles(fs),
                      ScoreTable(fs, PythonFiles(fs), analyze_prompt_intent(fin.prompt)))
        /\ IntentDomains(analyze_prompt_intent(fin.prompt)) = {} => fout = << >>

\* thirteen files score above 0.1, of which two with the same score: ten are
\* returned, the second app1.py before the first, and core0.py is left out
C25_Witness ==
    /\ pc = "ranked"
    /\ fs = RankPool
    /\ Len(fout) = MAX_FILES
    /\ Cardinality(Relevant(fs, ScoreTable(fs, PythonFiles(fs),
                                           analyze_prompt_intent(fin.prompt)))) = 13
    /\ \E j, k \in 1..Len(fout) : j < k /\ fout[j] = LIB_APP1 /\ fout[k] = AppFile(1)
    /\ \A k \in 1..Len(fout) : fout[k] # CoreFile(0)

\* the text ends with the suffix sfx and holds it nowhere else
EndsWithOnce(text, sfx) ==
    /\ text # << >>
    /\ << text[Len(text)] >> = sfx
    /\ \A i \in 1..(Len(text) - 1) : << text[i] >> # sfx

\* the text holds neither suffix
NoSuffix(text) ==
    \A i \in 1..Len(text) : << text[i] >> \notin { CRITICAL_SUFFIX, IMPORTANT_SUFFIX }

\* what process_file_references returned, r, is the substituted prompt `body`
\* with the suffix that goes with has_refs and is_mod
SuffixedFor(r, body, has_refs, is_mod) ==
    /\ r.has_refs = has_refs
    /\ r.is_mod = is_mod
    /\ NoSuffix(body)
    /\ (is_mod /\ has_refs) =>
          r.processed = body \o CRITICAL_SUFFIX /\ EndsWithOnce(r.processed, CRITICAL_SUFFIX)
    /\ (is_mod /\ ~has_refs) =>
          r.processed = body \o IMPORTANT_SUFFIX /\ EndsWithOnce(r.processed, IMPORTANT_SUFFIX)
    /\ ~is_mod => r.processed = body

\* C26: process_file_references appends the CRITICAL suffix when the prompt
\* holds an @name token and is a modification request or force is set, the
\* IMPORTANT suffix when it is one and holds no token, and nothing otherwise:
\* then the processed prompt is the substituted prompt.  The prompt it was
\* given (a str, which Resolve leaves alone) holds no suffix afterwards.
C26_SuffixForModification ==
    pc = "resolved" =>
        /\ SuffixedFor(fout, ReplaceRefs(fs, fin.prompt, FindRefs(fin.prompt), 1),
                       RefStarts(fin.prompt) # {},
                       is_modification_request(fin.prompt) \/ fin.force)
        /\ NoSuffix(fin.prompt)

\* "see @a" with force set came back with the CRITICAL suffix after the
\* embedded file
C26_Witness ==
    /\ pc = "resolved"
    /\ fin.prompt = <<"s","e","e"," ","@","a">>
    /\ fin.force
    /\ EndsWithOnce(fout.processed, CRITICAL_SUFFIX)
    /\ Len(fout.processed) > Len(fin.prompt) + 1

\* the existing file `was` is a prefix of the content text
Extends(was, text) == was.exists => StartsWith(text, was.content)

\* C27: the merge removes and alters nothing: the content it proposes for an
\* existing file starts with the file's content, so after any number of
\* approved writes of a fan-out every file still starts with the content it
\* had when send_prompt began.
C27_MergeKeepsPrefix ==
    FanOut =>
        /\ \A i \in At("confirm") \cup At("write") :
              /\ Before(i)[log[i].file].exists
              /\ Extends(Before(i)[log[i].file], log[i].text)
        /\ \A n \in DOMAIN fs0 :
              fs0[n].exists => (fs[n].exists /\ Extends(fs0[n], fs[n].content))

\* a fan-out wrote the same file twice, once through the marker branch and
\* once through the append branch: the file grew twice and still starts as it
\* did
C27_Witness ==
    /\ FanOut /\ pc = "return"
    /\ \E i, j \in At("write") :
          /\ i < j
          /\ log[i].file = log[j].file
          /\ ShortDef(log[i - 2].text) # ShortDef(log[j - 2].text)
          /\ Len(fs0[log[i].file].content) < Len(log[i].text)
          /\ Len(log[i].text) < Len(log[j].text)
          /\ fs[log[j].file].content = log[j].text
          /\ StartsWith(log[j].text, fs0[log[i].file].content)

-----------------------------------------------------------------------------
(* ghostcoder.py, the single-file program, run next to the modular one on   *)
(* the same prompt, flags, files, responses and answers.  Its state is      *)
(* fout: where it stands, its files, what it did (a log like log), the      *)
(* response it got and the referenced files apply_code_changes has still to *)
(* go through.  Its helpers are those of the modular program, line for      *)
(* line.                                                                    *)

LegacyIdle(f) ==
    [ pc |-> "idle", prompt |-> << >>, fs |-> f, log |-> << >>, response |-> << >>,
      todo |-> << >> ]

\* ghostcoder.send_prompt up to its request: line 247
LegacySend(st, p) == [ st EXCEPT !.pc = "request", !.prompt = p ]

\* ghostcoder.apply_code_changes: the loop over referenced_files from the file
\* files[1] on, up to the next read of standard input
RECURSIVE LegacyApply(_, _, _)
LegacyApply(st, files, yes) ==
    IF files = << >> THEN [ st EXCEPT !.pc = "return", !.todo = << >> ]
    ELSE LET fname == files[1]
             code  == extract_code_for_file(st.response, << fname >>)
         IN  IF code = << >>
             THEN LegacyApply([ st EXCEPT !.log = @ \o << Event("extract", 0, fname, code,
                                                                FALSE, NoAnswer) >> ],
                              Tail(files), yes)
             ELSE IF yes
             THEN LegacyApply(
                     [ st EXCEPT !.fs = WriteText(@, fname, code),
                                 !.log = @ \o << Event("extract", 0, fname, code, TRUE, NoAnswer),
                                                 Event("confirm", 0, fname, code, TRUE, NoAnswer),
                                                 Event("write", 0, fname, code, TRUE, NoAnswer) >> ],
                     Tail(files), yes)
             ELSE [ st EXCEPT !.pc = "confirm", !.todo = files,
                              !.log = @ \o << Event("extract", 0, fname, code, TRUE, NoAnswer) >> ]

\* ghostcoder.send_prompt from its request on, lines 252-274, with the outcome
\* o of the request
LegacyRequest(st, o, apply, yes, force) ==
    LET sent == << Event("request", 0, << >>,
                         FullPrompt(process_file_references(st.fs, st.prompt, force).processed),
                         TRUE, NoAnswer) >>
    IN  IF o.kind \in Failures
        THEN [ st EXCEPT !.pc = "exited",
                         !.log = @ \o sent \o << Event("fail", 0, << >>, << o.kind >>,
                                                       FALSE, NoAnswer) >> ]
        ELSE LET got == [ st EXCEPT !.response = o.response,
                                    !.log = @ \o sent \o << Event("response", 0, << >>, o.response,
                                                                  TRUE, NoAnswer) >> ]
             IN  IF apply /\ (is_modification_request(st.prompt) \/ force)
                 THEN LegacyApply(got, FindRefs(st.prompt), yes)
                 ELSE [ got EXCEPT !.pc = "return" ]

\* input() in ghostcoder.show_diff_and_confirm returns answer: the write if it
\* was approved, and the rest of the loop
LegacyAnswer(st, answer) ==
    LET fname == st.todo[1]
        code  == extract_code_for_file(st.response, << fname >>)
        ok    == show_diff_and_confirm(FALSE, answer)
    IN  LegacyApply(
           [ st EXCEPT !.fs = IF ok THEN WriteText(@, fname, code) ELSE @,
                       !.log = @ \o << Event("confirm", 0, fname, code, ok, answer) >>
                                 \o (IF ok THEN << Event("write", 0, fname, code, TRUE, NoAnswer) >>
                                     ELSE << >>) ],
           Tail(st.todo), FALSE)

LegacyAt(where) == fout.pc = where

InitLegacy ==
    /\ fs \in InitialDirs
    /\ pc = "idle"
    /\ interactive = FALSE
    /\ auto_apply \in BOOLEAN
    /\ auto_yes \in BOOLEAN
    /\ force_code \in BOOLEAN
    /\ nprompts = 0 /\ prompt = << >> /\ mode = "none" /\ tasks = << >> /\ idx = 0
    /\ pending = NoPending /\ log = << >>
    /\ fs0 = fs
    /\ detected = FALSE
    /\ fin = << >>
    /\ fout = LegacyIdle(fs)

\* both programs are given the prompt p
PairRead ==
    /\ \E p \in Prompts : ReadPromptWith(p) /\ fout' = LegacySend(fout, p)
    /\ fin' = fin

\* both programs make a request, with the same outcome
PairRequest ==
    /\ LegacyAt("request")
    /\ \E o \in Outcomes :
          /\ RequestWith(o)
          /\ fout' = LegacyRequest(fout, o, auto_apply, auto_yes, force_code)
    /\ fin' = fin

\* both programs read an answer from standard input, the same one
PairConfirm ==
    /\ LegacyAt("confirm")
    /\ \E answer \in Answers : ConfirmWith(answer) /\ fout' = LegacyAnswer(fout, answer)
    /\ fin' = fin

\* the modular program makes a request the single-file one has no match for
ModularRequest == ~LegacyAt("request") /\ Request

\* the modular program reads an answer the single-file one has no match for
ModularConfirm == ~LegacyAt("confirm") /\ Confirm

\* the single-file program reads an answer the modular one has no match for
LegacyConfirm ==
    /\ LegacyAt("confirm")
    /\ pc # "confirm"
    /\ \E answer \in Answers : fout' = LegacyAnswer(fout, answer)
    /\ UNCHANGED << fs, pc, interactive, auto_apply, auto_yes, force_code, nprompts, prompt,
                    mode, tasks, idx, pending, fs0, log, fin, detected >>

NextLegacy ==
    PairRead \/ PairRequest \/ PairConfirm \/ ModularRequest \/ ModularConfirm
       \/ LegacyConfirm

SpecLegacy == InitLegacy /\ [][NextLegacy]_vars

\* the prompts C28 is about: one @name reference, or none with the modular
\* program on its single-request path (detection not called, or empty)
SinglePrompt ==
    /\ mode # "none"
    /\ \/ Len(FindRefs(prompt)) = 1
       \/ FindRefs(prompt) = << >> /\ mode = "single"

\* C28: on a prompt with exactly one @name reference, and on a prompt with no
\* reference for which context detection is not called or selects no file,
\* the single-file program and the modular one, given the same response and
\* the same answer, send the same one request, propose and write the same,
\* leave the same files and end the same way (return, or exit on a failed
\* request).
C28_LegacyAgrees ==
    SinglePrompt =>
        /\ fout.pc = pc
        /\ fout.log = log
        /\ fout.fs = fs
        /\ Cardinality(At("request")) <= 1

\* "fix @a.py" answered with code that the typed answer approved: both
\* programs wrote a.py and returned
C28_Witness ==
    /\ SinglePrompt /\ Len(FindRefs(prompt)) = 1
    /\ pc = "return" /\ fout.pc = "return"
    /\ \E i \in At("write") : log[i - 1].answer.read
    /\ fout.fs = fs /\ fs # fs0

=============================================================================
